---- MODULE Spec2Model ----
(***************************************************************************)
(* Model of the document store of privacy-journal-web                      *)
(* (src/src/services/GithubService.ts, the first GithubService class of    *)
(* the file): repository provisioning, the backend flag githubAvailable,   *)
(* entry operations against the remote repository or localStorage, the     *)
(* entry file format, and the vector index kept next to the entries.       *)
(*                                                                         *)
(* Text is modelled as a sequence of tokens.  A token is one character     *)
(* class or one literal of the file format: "\n", " ", "---", the keys     *)
(* "title: ", "createdAt: ", "updatedAt: ", "folderId: ", an ISO time      *)
(* stamp, or a word.  The regular expressions of the source are            *)
(* translated to searches over those tokens.                               *)
(*                                                                         *)
(* Every remote request of a handler has an outcome chosen by the          *)
(* environment (a parameter of the handler's operator); a handler is one   *)
(* action, except updateJournalEntry, whose suspension between reading     *)
(* the sha and writing the file is a state of its own (two callers).       *)
(***************************************************************************)
EXTENDS Integers, Sequences, FiniteSets, TLC

(***************************************************************************)
(* Bounds of the model                                                     *)
(***************************************************************************)
MaxClock == 2      \* the clock (milliseconds) runs from 1 to MaxClock
MaxSha == 3        \* number of accepted writes of entry files
MaxLocal == 2      \* records kept in localStorage, entries and folders together
MaxFaults == 1     \* requests that fail during one call
MaxPath == 3       \* folders getFolderPath puts on its path
MaxTopK == 2       \* results a search asks for

(***************************************************************************)
(* Time stamps, ids and names                                              *)
(***************************************************************************)
Times == 1..MaxClock

\* new Date().toISOString()
ISO(t) == "T" \o ToString(t) \o ":00.000Z"

\* now.replace(/[:.]/g, "-")
EntryId(t) == "T" \o ToString(t) \o "-00-000Z"

Ids == {EntryId(t) : t \in Times}

\* The characters of a time stamp and of a file name, by class: "d4", "d2",
\* "d3" stand for groups of four, two and three digits.
\* toISOString(): YYYY-MM-DDTHH:mm:ss.sssZ
IsoChars == <<"d4", "-", "d2", "-", "d2", "T", "d2", ":", "d2", ":", "d2", ".", "d3", "Z">>

\* s.replace(/[:.]/g, "-")
ReplaceColonDot(s) == [k \in 1..Len(s) |-> IF s[k] \in {":", "."} THEN "-" ELSE s[k]]

\* The characters of the file name `${id}.md`
FileChars(name) ==
    IF name \in Ids THEN ReplaceColonDot(IsoChars) \o <<".md">>
    ELSE <<name, ".md">>

\* /^\d{4}-\d{2}-\d{2}T\d{2}-\d{2}-\d{2}.*\.md$/.test(name)
EntryNamePattern == <<"d4", "-", "d2", "-", "d2", "T", "d2", "-", "d2", "-", "d2">>
MatchesEntryName(chars) ==
    /\ Len(chars) >= Len(EntryNamePattern) + 1
    /\ SubSeq(chars, 1, Len(EntryNamePattern)) = EntryNamePattern
    /\ chars[Len(chars)] = ".md"

NaN == -1

\* new Date(s).getTime(): the instant of an ISO string, NaN for any other text
GetTime(s) ==
    IF \E t \in Times : s = <<ISO(t)>>
    THEN CHOOSE t \in Times : s = <<ISO(t)>>
    ELSE NaN

\* The identity GitHub reports (user.login) and the user names the UI may
\* hand to initialize.
Login == "octocat"
Usernames == {"octocat", "octo.cat"}
NoUser == "null"

\* username.replace(/[^a-zA-Z0-9-]/g, "-")
Sanitize(u) == IF u = "octo.cat" THEN "octo-cat" ELSE u

DefaultRepoName == "privacy-journal-entries"
DerivedName(u) == "privacy-journal-entries-" \o Sanitize(u)
SuffixedName(u, t) == "privacy-journal-entries-" \o Sanitize(u) \o "-" \o ToString(t)

\* The name retryGitHubConnection gives the store:
\*   `privacy-journal-${username.replace(...)}-${timestamp}`
RetryName(u, t) == "privacy-journal-" \o Sanitize(u) \o "-" \o ToString(t)

\* An absent optional string (undefined)
Undefined == <<"undefined">>
Truthy(s) == s # Undefined /\ s # <<>>

(***************************************************************************)
(* EntryCodec: the frontmatter text written by createJournalEntry,         *)
(* updateJournalEntry and moveEntryToFolder, and its decoding in           *)
(* getJournalEntryById and getAllJournalEntries.                           *)
(***************************************************************************)
FrontMatter(title, createdAt, updatedAt, folderId, content) ==
    <<"---", "\n", "title: ">> \o title
      \o <<"\n", "createdAt: ">> \o createdAt
      \o <<"\n", "updatedAt: ">> \o updatedAt
      \o (IF Truthy(folderId) THEN <<"\n", "folderId: ">> \o folderId ELSE <<>>)
      \o <<"\n", "---", "\n", "\n">> \o content

IsSpace(tok) == tok \in {" ", "\n"}

\* String.prototype.trim
Trim(s) ==
    LET keep == {i \in 1..Len(s) : ~IsSpace(s[i])}
    IN  IF keep = {} THEN <<>>
        ELSE LET lo == CHOOSE i \in keep : \A j \in keep : i <= j
                 hi == CHOOSE i \in keep : \A j \in keep : j <= i
             IN  SubSeq(s, lo, hi)

\* positions j at which "\n---\n\n" starts
Closers(text) ==
    {j \in 1..(Len(text) - 3) :
        /\ text[j] = "\n" /\ text[j + 1] = "---"
        /\ text[j + 2] = "\n" /\ text[j + 3] = "\n"}

\* positions i at which "---\n" starts and after which the closing delimiter occurs
Openers(text, closers) ==
    {i \in 1..(Len(text) - 1) :
        /\ text[i] = "---" /\ text[i + 1] = "\n"
        /\ \E j \in closers : j >= i + 2}

\* decodedContent.match(/---\n([\s\S]*?)\n---\n\n([\s\S]*)/):
\* <<>> when there is no match, else <<group 1, group 2>>
FrontMatterMatch(text) ==
    LET closers == Closers(text)
        openers == Openers(text, closers)
    IN  IF openers = {} THEN <<>>
        ELSE LET i == CHOOSE a \in openers : \A b \in openers : a <= b
                 cl == {c \in closers : c >= i + 2}
                 j == CHOOSE a \in cl : \A b \in cl : a <= b
             IN  <<SubSeq(text, i + 2, j - 1), SubSeq(text, j + 4, Len(text))>>

\* frontMatter.match(/key(.*)/): <<>> when the key does not occur, else
\* <<group 1>>, the rest of the line after the first occurrence of the key
FieldMatch(fm, key) ==
    LET at == {k \in 1..Len(fm) : fm[k] = key}
    IN  IF at = {} THEN <<>>
        ELSE LET k == CHOOSE a \in at : \A b \in at : a <= b
                 nl == {n \in (k + 1)..Len(fm) : fm[n] = "\n"}
                 e == IF nl = {} THEN Len(fm)
                      ELSE (CHOOSE a \in nl : \A b \in nl : a <= b) - 1
             IN  <<SubSeq(fm, k + 1, e)>>

\* The entry built from a decoded file; <<>> when the text has no metadata block
ParseEntry(id, text, now) ==
    LET m == FrontMatterMatch(text)
    IN  IF m = <<>> THEN <<>>
        ELSE LET titleMatch == FieldMatch(m[1], "title: ")
                 createdAtMatch == FieldMatch(m[1], "createdAt: ")
                 updatedAtMatch == FieldMatch(m[1], "updatedAt: ")
                 folderIdMatch == FieldMatch(m[1], "folderId: ")
             IN  << [id |-> id,
                     title |-> IF titleMatch # <<>> THEN titleMatch[1] ELSE <<"Untitled">>,
                     content |-> Trim(m[2]),
                     createdAt |-> IF createdAtMatch # <<>> THEN createdAtMatch[1]
                                   ELSE <<ISO(now)>>,
                     updatedAt |-> IF updatedAtMatch # <<>> THEN updatedAtMatch[1]
                                   ELSE <<ISO(now)>>,
                     folderId |-> IF folderIdMatch # <<>> THEN folderIdMatch[1]
                                  ELSE Undefined] >>

(***************************************************************************)
(* State                                                                   *)
(***************************************************************************)
VARIABLES
    octokit,        \* TRUE once initialize has built the client
    username,       \* this.username, NoUser before initialize
    repoName,       \* this.repoName, the store name
    githubAvailable,\* this.githubAvailable, the backend flag
    canCreate,      \* TRUE when the token may create repositories
    repos,          \* names of the repositories the identity owns and can read
    hidden,         \* names taken on the account but neither listed nor readable
    files,          \* files[r][name]: the entry files of repository r
    folders,        \* folders[r][id]: the files folders/<id>.json of repository r
    vdb,            \* vdb[r]: the content of vector_db.json of repository r
    localEntries,   \* localStorage "journal-entries", parsed
    localFolders,   \* localStorage "journal-folders", parsed
    localVdb,       \* localStorage "journal-vector-db", parsed
    now,            \* the clock
    nextSha,        \* the version token the next accepted write gets
    bg,             \* TRUE while the task started by initialize has not run
    apiKey,         \* TRUE when an OpenAI API key is configured
    upd,            \* upd[p]: the updateJournalEntry call of caller p
    walk,           \* the getFolderPath call of the folders hook: its loop state
    ix,             \* the version token of vector_db.json and the index writers
    last            \* what the last completed call did and returned

vars == <<octokit, username, repoName, githubAvailable, canCreate, repos, hidden,
          files, folders, vdb, localEntries, localFolders, localVdb, now, nextSha,
          bg, apiKey, upd, walk, ix, last>>

Callers == {1, 2}

FileNames == Ids \cup {"README"}
NoFile == [sha |-> 0, text |-> <<>>]
\* auto_init: true gives a new repository a README.md
InitialFiles == [n \in FileNames |->
                    IF n = "README" THEN [sha |-> 1, text |-> <<"#", " ", "journal">>]
                    ELSE NoFile]

\* The ids createFolder can draw: `folder-${Date.now()}-${random}`, the random
\* part making the id fresh
FolderIds == {"folder-a", "folder-b"}
NoFolderFile == [sha |-> 0, data |-> <<>>]
NoFolders == [f \in FolderIds |-> NoFolderFile]

NoVec == <<>>
EmptyDb == [i \in Ids |-> NoVec]

\* The service and its surroundings as one value, threaded through the
\* steps of a handler.  alerted, unsaved, indexCalls and trace belong to one
\* call: whether it showed an alert, whether a localStorage write of it
\* failed, how often it called loadVectorDB or saveVectorDB, and what a
\* rebuild did.
World ==
    [username |-> username, repoName |-> repoName, avail |-> githubAvailable,
     repos |-> repos, files |-> files, folders |-> folders, vdb |-> vdb,
     localEntries |-> localEntries, localFolders |-> localFolders,
     localVdb |-> localVdb,
     nextSha |-> nextSha, alerted |-> FALSE, unsaved |-> FALSE, indexCalls |-> 0,
     trace |-> <<>>]

Commit(w) ==
    /\ username' = w.username
    /\ repoName' = w.repoName
    /\ githubAvailable' = w.avail
    /\ repos' = w.repos
    /\ files' = w.files
    /\ folders' = w.folders
    /\ vdb' = w.vdb
    /\ localEntries' = w.localEntries
    /\ localFolders' = w.localFolders
    /\ localVdb' = w.localVdb
    /\ nextSha' = w.nextSha

\* A request that names owner and repo reaches a repository only under the
\* canonical owner and for a repository that owner can read.
Reachable(w) == w.username = Login /\ w.repoName \in w.repos

(***************************************************************************)
(* Provisioning                                                            *)
(***************************************************************************)
\* verifyGitHubAccess; ok: the getAuthenticated request succeeds
verifyGitHubAccess(w, ok) ==
    IF ok
    THEN IF Login # w.username
         THEN [w EXCEPT !.username = Login, !.repoName = DerivedName(Login)]
         ELSE w
    ELSE [w EXCEPT !.avail = FALSE]

\* createRepo with a catch that swallows every failure of the create request
createRepoSilent(w, ok) ==
    IF ~ok \/ ~canCreate
    THEN [w |-> [w EXCEPT !.avail = FALSE], threw |-> FALSE, exists |-> FALSE,
          failed |-> TRUE]
    ELSE IF w.repoName \in w.repos \cup hidden
    THEN [w |-> [w EXCEPT !.avail = FALSE], threw |-> FALSE, exists |-> TRUE,
          failed |-> FALSE]
    ELSE [w |-> [w EXCEPT !.repos = @ \cup {w.repoName},
                          !.files = (w.repoName :> InitialFiles) @@ @,
                          !.folders = (w.repoName :> NoFolders) @@ @,
                          !.vdb = (w.repoName :> EmptyDb) @@ @],
          threw |-> FALSE, exists |-> FALSE, failed |-> FALSE]

\* createRepo; ok: the create request reaches the service.  The result says
\* whether createRepo threw, whether the request was rejected as "already
\* exists", and whether it failed for another reason.
createRepo(w, ok) ==
    IF ~ok \/ ~canCreate
    THEN [w |-> w, threw |-> TRUE, exists |-> FALSE, failed |-> TRUE]
    ELSE IF w.repoName \in w.repos \cup hidden
    THEN \* 422 "already exists": logged, flag cleared, no throw
         [w |-> [w EXCEPT !.avail = FALSE], threw |-> FALSE, exists |-> TRUE,
          failed |-> FALSE]
    ELSE [w |-> [w EXCEPT !.repos = @ \cup {w.repoName},
                          !.files = (w.repoName :> InitialFiles) @@ @,
                          !.folders = (w.repoName :> NoFolders) @@ @,
                          !.vdb = (w.repoName :> EmptyDb) @@ @],
          threw |-> FALSE, exists |-> FALSE, failed |-> FALSE]

\* The environment of one call: for each request the call may issue, whether
\* it succeeds.  v, v2: getAuthenticated (of the operation, of the
\* getJournalEntryById it calls); l, g, c, c2: the list, get and create
\* requests of ensureRepoExists; get, sha, put, del, list, fetch: the
\* requests of the operation's body; emb: the embedding request; xl, xs: the
\* read and the write of vector_db.json; s: localStorage.setItem.
EnvFields == {"v", "v2", "l", "g", "c", "c2", "get", "sha", "put", "del", "list",
              "fetch", "emb", "xl", "xs", "s"}
Envs(F) ==
    {[f \in EnvFields |-> f \notin D] : D \in {D \in SUBSET F : Cardinality(D) <= MaxFaults}}

\* ensureRepoExists.  Result: the world after the call, the value returned,
\* the names create requests were issued for, whether a create request was
\* rejected as "already exists", and whether a create request failed otherwise.
ensureRepoExists(w, e, t) ==
    IF w.username = NoUser
    THEN [w |-> [w EXCEPT !.avail = FALSE], ret |-> FALSE, creates |-> <<>>,
          conflict |-> FALSE, failed |-> FALSE]
    ELSE IF e.l /\ w.repoName \in w.repos
    THEN [w |-> w, ret |-> TRUE, creates |-> <<>>, conflict |-> FALSE, failed |-> FALSE]
    ELSE IF e.g /\ Reachable(w)
    THEN [w |-> w, ret |-> TRUE, creates |-> <<>>, conflict |-> FALSE, failed |-> FALSE]
    ELSE LET \* status 422 with "already exists": timestamped name, one retry
             Retry(w2, c2) ==
                 IF ~c2.threw
                 THEN [w |-> c2.w, ret |-> TRUE,
                       creates |-> <<w.repoName, w2.repoName>>,
                       conflict |-> TRUE, failed |-> c2.failed]
                 ELSE [w |-> [c2.w EXCEPT !.avail = FALSE], ret |-> FALSE,
                       creates |-> <<w.repoName, w2.repoName>>,
                       conflict |-> TRUE, failed |-> TRUE]
             Rename(w2) == Retry(w2, createRepo(w2, e.c2))
             Created(c1) ==
                 IF ~c1.threw
                 THEN [w |-> c1.w, ret |-> TRUE, creates |-> <<w.repoName>>,
                       conflict |-> c1.exists, failed |-> c1.failed]
                 ELSE IF c1.exists
                 THEN Rename([c1.w EXCEPT !.repoName = SuffixedName(w.username, t)])
                 ELSE [w |-> [c1.w EXCEPT !.avail = FALSE], ret |-> FALSE,
                       creates |-> <<w.repoName>>, conflict |-> FALSE,
                       failed |-> c1.failed]
         IN  Created(createRepo(w, e.c))

\* What initialize(accessToken, username) assigns before it starts its
\* background task: the identity, the flag, and the derived store name
initialize(w, u) ==
    [w EXCEPT !.username = u, !.avail = TRUE, !.repoName = DerivedName(u)]

\* The first lines of every entry and folder operation:
\*   await this.verifyGitHubAccess();
\*   this.githubAvailable = await this.ensureRepoExists();
CheckBackend(w, e, t) ==
    LET Assign(r) == [r EXCEPT !.w = [r.w EXCEPT !.avail = r.ret]]
    IN  Assign(ensureRepoExists(verifyGitHubAccess(w, e.v), e, t))

(***************************************************************************)
(* LocalCache                                                              *)
(***************************************************************************)
\* getLocalJournalEntries
getLocalJournalEntries(w) == w.localEntries

\* saveLocalJournalEntries; ok: localStorage.setItem succeeds.  A failure is
\* caught and shown with alert().
saveLocalJournalEntries(w, entries, ok) ==
    IF ok THEN [w EXCEPT !.localEntries = entries]
    ELSE [w EXCEPT !.alerted = TRUE, !.unsaved = TRUE]

\* getLocalVectorDB
getLocalVectorDB(w) == w.localVdb

\* saveLocalVectorDB; a failure is caught and logged
saveLocalVectorDB(w, db, ok) ==
    IF ok THEN [w EXCEPT !.localVdb = db] ELSE [w EXCEPT !.unsaved = TRUE]

(***************************************************************************)
(* Vector index                                                            *)
(***************************************************************************)
\* openAIService.generateEmbedding: the provider is a black box; the model
\* gives each text a vector fixed by its first word.  Without an API key, or
\* when the request fails (ok = FALSE), the result is null.
generateEmbedding(text, ok) ==
    IF ~apiKey \/ ~ok THEN NoVec
    ELSE IF text = <<>> THEN <<0, 1>>
    ELSE IF text[1] = "A" THEN <<1, 0>>
    ELSE IF text[1] = "A2" THEN <<1, 1>>
    ELSE <<0, 1>>

\* `${title}\n\n${content}`
EmbeddingText(title, content) == title \o <<"\n", "\n">> \o content

\* loadVectorDB; ok: the getContent request for vector_db.json succeeds
loadVectorDB(w, ok) ==
    IF ~w.avail \/ w.username = NoUser THEN getLocalVectorDB(w)
    ELSE IF ok /\ Reachable(w) THEN w.vdb[w.repoName]
    ELSE EmptyDb

\* saveVectorDB; ok: the sha lookup and the write succeed; sOk: localStorage
saveVectorDB(w, db, ok, sOk) ==
    LET w1 == saveLocalVectorDB(w, db, sOk)
    IN  IF ~w1.avail \/ w1.username = NoUser THEN w1
        ELSE IF ok /\ Reachable(w1)
        THEN [w1 EXCEPT !.vdb = [@ EXCEPT ![w1.repoName] = db]]
        ELSE w1

\* An upsert without the early return: it stores whatever the provider gave
upsertEntryEmbeddingAlways(w, entryId, text, e) ==
    saveVectorDB([w EXCEPT !.indexCalls = @ + 2],
                 [loadVectorDB(w, e.xl) EXCEPT ![entryId] = generateEmbedding(text, e.emb)],
                 e.xs, e.s)

\* upsertEntryEmbedding
upsertEntryEmbedding(w, entryId, text, e) ==
    LET embedding == generateEmbedding(text, e.emb)
    IN  IF embedding = NoVec THEN w
        ELSE LET db == loadVectorDB(w, e.xl)
             IN  saveVectorDB([w EXCEPT !.indexCalls = @ + 2],
                              [db EXCEPT ![entryId] = embedding], e.xs, e.s)

\* removeEntryEmbedding
removeEntryEmbedding(w, entryId, e) ==
    LET db == loadVectorDB(w, e.xl)
    IN  IF db[entryId] # NoVec
        THEN saveVectorDB([w EXCEPT !.indexCalls = @ + 2],
                          [db EXCEPT ![entryId] = NoVec], e.xs, e.s)
        ELSE [w EXCEPT !.indexCalls = @ + 1]

(***************************************************************************)
(* Entry operations.  Each operator returns the world after the call and   *)
(* what the call returned: ret (the entries returned, <<>> for null), ok   *)
(* (a boolean result), threw, served (the store the call ended on), failed *)
(* (a remote request of the operation's body failed), ens (what            *)
(* ensureRepoExists did).                                                  *)
(***************************************************************************)
NoEns == [ret |-> FALSE, creates |-> <<>>, conflict |-> FALSE, failed |-> FALSE,
          called |-> FALSE]
EnsOf(cb) == [ret |-> cb.ret, creates |-> cb.creates, conflict |-> cb.conflict,
              failed |-> cb.failed, called |-> TRUE]

Outcome(w, ret, ok, served, failed, ens) ==
    [w |-> w, ret |-> ret, ok |-> ok, threw |-> FALSE, served |-> served,
     failed |-> failed, ens |-> ens]

\* A file can be created without a sha only where none exists, and replaced
\* or deleted only with the sha it currently has.
FileAt(w, name) == w.files[w.repoName][name]
PutFile(w, name, text) ==
    [w EXCEPT !.files = [@ EXCEPT ![w.repoName] =
                            [@ EXCEPT ![name] = [sha |-> w.nextSha, text |-> text]]],
              !.nextSha = @ + 1]
RemoveFile(w, name) ==
    [w EXCEPT !.files = [@ EXCEPT ![w.repoName] = [@ EXCEPT ![name] = NoFile]]]

\* createJournalEntry
createJournalEntry(w, title, content, folderId, t, e) ==
    LET cb == CheckBackend(w, e, t)
        w1 == cb.w
        id == EntryId(t)
        newEntry == [id |-> id, title |-> title, content |-> content,
                     createdAt |-> <<ISO(t)>>, updatedAt |-> <<ISO(t)>>,
                     folderId |-> folderId]
        local(failed) ==
            Outcome(saveLocalJournalEntries(w1, Append(getLocalJournalEntries(w1), newEntry), e.s),
                    <<newEntry>>, TRUE, "local", failed, EnsOf(cb))
    IN  IF ~w1.avail THEN local(FALSE)
        ELSE IF e.put /\ Reachable(w1) /\ FileAt(w1, id) = NoFile
        THEN LET w2 == PutFile(w1, id,
                               FrontMatter(title, <<ISO(t)>>, <<ISO(t)>>, folderId, content))
                 w3 == upsertEntryEmbedding(w2, id, EmbeddingText(title, content), e)
             IN  Outcome(w3, <<newEntry>>, TRUE, "remote", FALSE, EnsOf(cb))
        ELSE local(TRUE)

\* The migration loop of retryGitHubConnection: one write without a sha per
\* local entry, the text without a folderId line; bad: the ids whose write
\* request fails.  A failed or refused write throws and ends the loop.
RECURSIVE MigrateEntries(_, _, _)
MigrateEntries(w, entries, bad) ==
    IF entries = <<>> THEN [w |-> w, threw |-> FALSE]
    ELSE LET entry == Head(entries)
         IN  IF entry.id \notin bad /\ Reachable(w) /\ FileAt(w, entry.id) = NoFile
             THEN MigrateEntries(PutFile(w, entry.id,
                                         FrontMatter(entry.title, entry.createdAt,
                                                     entry.updatedAt, Undefined,
                                                     entry.content)),
                                 Tail(entries), bad)
             ELSE [w |-> w, threw |-> TRUE]

\* retryGitHubConnection; the result is in ok.  The store name is changed
\* before anything is tried and stays changed when the retry fails.
retryGitHubConnection(w, t, e, bad) ==
    IF w.username = NoUser
    THEN Outcome(w, <<>>, FALSE, "none", FALSE, NoEns)
    ELSE LET Migrated(m) ==
                 IF m.threw
                 THEN Outcome([m.w EXCEPT !.avail = FALSE], <<>>, FALSE, "remote", TRUE, NoEns)
                 ELSE Outcome(m.w, <<>>, TRUE, "remote", FALSE, NoEns)
             Created(c) ==
                 IF c.threw
                 THEN Outcome([c.w EXCEPT !.avail = FALSE], <<>>, FALSE, "remote", TRUE, NoEns)
                 ELSE Migrated(MigrateEntries([c.w EXCEPT !.avail = TRUE],
                                              getLocalJournalEntries(c.w), bad))
         IN  Created(createRepo([w EXCEPT !.repoName = RetryName(w.username, t)], e.c))

\* entries.find((entry) => entry.id === id) || null
FindLocal(entries, id) ==
    LET at == {i \in 1..Len(entries) : entries[i].id = id}
    IN  IF at = {} THEN <<>>
        ELSE <<entries[CHOOSE i \in at : \A j \in at : i <= j]>>

\* id.toLowerCase() === "readme"
\* The spellings of the id readme a caller may pass, and toLowerCase on ids:
\* the other ids are not letters of "readme" in any case
ReadmeIds == {"README", "Readme", "readme"}
ToLowerCase(id) == IF id \in ReadmeIds THEN "readme" ELSE id
IsReadme(id) == ToLowerCase(id) = "readme"

\* getJournalEntryById; v: verify; get: the getContent request succeeds.
\* requests counts the getContent requests issued, verifies the
\* getAuthenticated requests of verifyGitHubAccess.
getJournalEntryById(w, id, t, v, get) ==
    LET w1 == verifyGitHubAccess(w, v)
    IN  IF ~w1.avail
        THEN [w |-> w1, ret |-> FindLocal(getLocalJournalEntries(w1), id),
              served |-> "local", requests |-> 0, verifies |-> 1]
        ELSE IF IsReadme(id)
        THEN [w |-> w1, ret |-> <<>>, served |-> "remote", requests |-> 0, verifies |-> 1]
        ELSE IF get /\ Reachable(w1) /\ FileAt(w1, id) # NoFile
        THEN [w |-> w1, ret |-> ParseEntry(id, FileAt(w1, id).text, t),
              served |-> "remote", requests |-> 1, verifies |-> 1]
        ELSE [w |-> w1, ret |-> <<>>, served |-> "remote", requests |-> 1, verifies |-> 1]

\* The comparator of the sort in getAllJournalEntries:
\*   new Date(b.createdAt).getTime() - new Date(a.createdAt).getTime()
\* A NaN result counts as 0 (SortCompare).
CompareCreatedAt(a, b) ==
    LET ta == GetTime(a.createdAt)
        tb == GetTime(b.createdAt)
    IN  IF ta = NaN \/ tb = NaN THEN 0 ELSE tb - ta

\* Array.prototype.sort with that comparator: a stable sort
RECURSIVE SortEntries(_)
SortEntries(s) ==
    IF Len(s) <= 1 THEN s
    ELSE LET rest == SortEntries(SubSeq(s, 1, Len(s) - 1))
             x == s[Len(s)]
             \* x goes after every element it does not precede
             before == {i \in 1..Len(rest) : CompareCreatedAt(x, rest[i]) < 0}
             k == IF before = {} THEN Len(rest) + 1
                  ELSE CHOOSE i \in before : \A j \in before : i <= j
         IN  SubSeq(rest, 1, k - 1) \o <<x>> \o SubSeq(rest, k, Len(rest))

\* The file-name filter of the listing: a file, ".md", not readme.md, and
\* /^\d{4}-\d{2}-\d{2}T\d{2}-\d{2}-\d{2}.*\.md$/
IsEntryFile(name) == ~IsReadme(name) /\ MatchesEntryName(FileChars(name))

\* The names of a listing, in the order the remote lists them (by name)
RECURSIVE NamesInOrder(_, _)
NamesInOrder(w, t) ==
    IF t > MaxClock THEN <<>>
    ELSE (IF FileAt(w, EntryId(t)) # NoFile /\ IsEntryFile(EntryId(t))
          THEN <<EntryId(t)>> ELSE <<>>) \o NamesInOrder(w, t + 1)

\* A loop that gives up at the first file that cannot be fetched or decoded
RECURSIVE DecodeFilesAborting(_, _, _, _)
DecodeFilesAborting(w, names, bad, t) ==
    IF names = <<>> THEN <<>>
    ELSE IF Head(names) \in bad \/ ParseEntry(Head(names), FileAt(w, Head(names)).text, t) = <<>>
    THEN <<>>
    ELSE ParseEntry(Head(names), FileAt(w, Head(names)).text, t)
         \o DecodeFilesAborting(w, Tail(names), bad, t)

\* The loop over mdFiles: a file whose fetch throws, or whose text does not
\* match, adds nothing
RECURSIVE DecodeFiles(_, _, _, _)
DecodeFiles(w, names, bad, t) ==
    IF names = <<>> THEN <<>>
    ELSE (IF Head(names) \in bad THEN <<>>
          ELSE ParseEntry(Head(names), FileAt(w, Head(names)).text, t))
         \o DecodeFiles(w, Tail(names), bad, t)

\* getAllJournalEntries; bad: the files whose fetch fails
getAllJournalEntries(w, t, e, bad) ==
    LET cb == CheckBackend(w, e, t)
        w1 == cb.w
    IN  IF ~w1.avail
        THEN Outcome(w1, getLocalJournalEntries(w1), TRUE, "local", FALSE, EnsOf(cb))
        ELSE IF e.list /\ Reachable(w1)
        THEN Outcome(w1, SortEntries(DecodeFiles(w1, NamesInOrder(w1, 1), bad, t)),
                     TRUE, "remote", FALSE, EnsOf(cb))
        ELSE LET w2 == [w1 EXCEPT !.avail = FALSE]
             IN  Outcome(w2, getLocalJournalEntries(w2), TRUE, "local", TRUE, EnsOf(cb))

\* entries[entryIndex] = updatedEntry, entryIndex the first index with the id
ReplaceFirst(entries, id, new) ==
    LET at == {i \in 1..Len(entries) : entries[i].id = id}
        k == CHOOSE i \in at : \A j \in at : i <= j
    IN  [entries EXCEPT ![k] = new]

\* updateJournalEntry up to the write request.  pending = <<>>: the call has
\* returned (out is its result); otherwise the call holds the text to write
\* and the sha it read.
updateRead(w, id, title, content, folderId, t, e) ==
    LET cb == CheckBackend(w, e, t)
        w1 == cb.w
        done(o) == [out |-> o, pending |-> <<>>]
    IN  IF ~w1.avail
        THEN LET entries == getLocalJournalEntries(w1)
                 found == FindLocal(entries, id)
             IN  IF found = <<>>
                 THEN done(Outcome(w1, <<>>, FALSE, "local", FALSE, EnsOf(cb)))
                 ELSE LET updatedEntry == [found[1] EXCEPT !.title = title,
                                               !.content = content, !.folderId = folderId,
                                               !.updatedAt = <<ISO(t)>>]
                      IN  done(Outcome(saveLocalJournalEntries(w1,
                                           ReplaceFirst(entries, id, updatedEntry), e.s),
                                       <<updatedEntry>>, TRUE, "local", FALSE, EnsOf(cb)))
        ELSE LET g == getJournalEntryById(w1, id, t, e.v2, e.get)
                 w2 == g.w
             IN  IF g.ret = <<>>
                 THEN done(Outcome(w2, <<>>, FALSE, "remote", FALSE, EnsOf(cb)))
                 ELSE IF e.sha /\ Reachable(w2) /\ FileAt(w2, id) # NoFile
                 THEN [out |-> Outcome(w2, <<>>, FALSE, "remote", FALSE, EnsOf(cb)),
                       pending |->
                         <<[id |-> id, title |-> title, content |-> content,
                            folderId |-> folderId, createdAt |-> g.ret[1].createdAt,
                            now |-> t, sha |-> FileAt(w2, id).sha]>>]
                 ELSE done(Outcome(w2, <<>>, FALSE, "remote", TRUE, EnsOf(cb)))

\* updateWrite with a retry: after a rejected write it reads the sha again and
\* writes a second time
updateWriteRetrying(w, u, ens, e) ==
    IF e.put /\ Reachable(w) /\ FileAt(w, u.id) # NoFile
    THEN LET w1 == PutFile(w, u.id,
                           FrontMatter(u.title, u.createdAt, <<ISO(u.now)>>,
                                       u.folderId, u.content))
             w2 == upsertEntryEmbedding(w1, u.id, EmbeddingText(u.title, u.content), e)
         IN  [out |-> Outcome(w2, <<[id |-> u.id, title |-> u.title,
                                     content |-> u.content, createdAt |-> u.createdAt,
                                     updatedAt |-> <<ISO(u.now)>>,
                                     folderId |-> u.folderId]>>,
                              TRUE, "remote", FALSE, ens),
              writes |-> IF FileAt(w, u.id).sha = u.sha THEN 1 ELSE 2]
    ELSE [out |-> Outcome(w, <<>>, FALSE, "remote", TRUE, ens), writes |-> 1]

\* The rest of updateJournalEntry: the write with the sha read before, the
\* index update, the result.  writes counts the write requests issued.
updateWrite(w, u, ens, e) ==
    IF e.put /\ Reachable(w) /\ FileAt(w, u.id) # NoFile /\ FileAt(w, u.id).sha = u.sha
    THEN LET w1 == PutFile(w, u.id,
                           FrontMatter(u.title, u.createdAt, <<ISO(u.now)>>,
                                       u.folderId, u.content))
             w2 == upsertEntryEmbedding(w1, u.id, EmbeddingText(u.title, u.content), e)
         IN  [out |-> Outcome(w2, <<[id |-> u.id, title |-> u.title,
                                     content |-> u.content, createdAt |-> u.createdAt,
                                     updatedAt |-> <<ISO(u.now)>>,
                                     folderId |-> u.folderId]>>,
                              TRUE, "remote", FALSE, ens),
              writes |-> 1]
    ELSE [out |-> Outcome(w, <<>>, FALSE, "remote", TRUE, ens), writes |-> 1]

\* updateJournalEntry, run without interruption
updateJournalEntry(w, id, title, content, folderId, t, e) ==
    LET r == updateRead(w, id, title, content, folderId, t, e)
    IN  IF r.pending = <<>> THEN r.out
        ELSE updateWrite(r.out.w, r.pending[1], r.out.ens, e).out

\* entries.filter((entry) => entry.id !== id)
RECURSIVE FilterOut(_, _)
FilterOut(entries, id) ==
    IF entries = <<>> THEN <<>>
    ELSE (IF Head(entries).id # id THEN <<Head(entries)>> ELSE <<>>)
         \o FilterOut(Tail(entries), id)

\* deleteJournalEntry
deleteJournalEntry(w, id, t, e) ==
    LET cb == CheckBackend(w, e, t)
        w1 == cb.w
    IN  IF ~w1.avail
        THEN LET entries == getLocalJournalEntries(w1)
                 filteredEntries == FilterOut(entries, id)
             IN  IF Len(filteredEntries) = Len(entries)
                 THEN Outcome(w1, <<>>, FALSE, "local", FALSE, EnsOf(cb))
                 ELSE Outcome(saveLocalJournalEntries(w1, filteredEntries, e.s),
                              <<>>, TRUE, "local", FALSE, EnsOf(cb))
        ELSE IF e.sha /\ e.del /\ Reachable(w1) /\ FileAt(w1, id) # NoFile
        THEN Outcome(removeEntryEmbedding(RemoveFile(w1, id), id, e),
                     <<>>, TRUE, "remote", FALSE, EnsOf(cb))
        ELSE Outcome(w1, <<>>, FALSE, "remote", TRUE, EnsOf(cb))

\* moveEntryToFolder
moveEntryToFolder(w, entryId, newFolderId, t, e) ==
    LET cb == CheckBackend(w, e, t)
        w1 == cb.w
    IN  IF ~w1.avail
        THEN LET entries == getLocalJournalEntries(w1)
                 found == FindLocal(entries, entryId)
             IN  IF found = <<>>
                 THEN Outcome(w1, <<>>, FALSE, "local", FALSE, EnsOf(cb))
                 ELSE LET updatedEntry == [found[1] EXCEPT !.folderId = newFolderId,
                                               !.updatedAt = <<ISO(t)>>]
                      IN  Outcome(saveLocalJournalEntries(w1,
                                      ReplaceFirst(entries, entryId, updatedEntry), e.s),
                                  <<updatedEntry>>, TRUE, "local", FALSE, EnsOf(cb))
        ELSE LET g == getJournalEntryById(w1, entryId, t, e.v2, e.get)
                 w2 == g.w
             IN  IF g.ret = <<>>
                 THEN Outcome(w2, <<>>, FALSE, "remote", FALSE, EnsOf(cb))
                 ELSE IF e.sha /\ e.put /\ Reachable(w2) /\ FileAt(w2, entryId) # NoFile
                 THEN LET existingEntry == g.ret[1]
                      IN  Outcome(PutFile(w2, entryId,
                                      FrontMatter(existingEntry.title, existingEntry.createdAt,
                                                  <<ISO(t)>>, newFolderId,
                                                  existingEntry.content)),
                                  <<[existingEntry EXCEPT !.folderId = newFolderId,
                                                          !.updatedAt = <<ISO(t)>>]>>,
                                  TRUE, "remote", FALSE, EnsOf(cb))
                 ELSE Outcome(w2, <<>>, FALSE, "remote", TRUE, EnsOf(cb))

\* What rebuildVectorIndex does that can be seen from outside, in order: an
\* embedding request for an entry (a: 1 when it gave a vector), a call of
\* onProgress(a, b), the call of saveVectorDB, and the return of
\* { processed: a, errors: b }
Event(ev, id, a, b) == [ev |-> ev, id |-> id, a |-> a, b |-> b]

\* A loop that saves the index after every entry
RECURSIVE RebuildLoopSavingEach(_, _, _, _, _, _, _)
RebuildLoopSavingEach(entries, total, newDb, processed, errors, trace, embBad) ==
    IF entries = <<>>
    THEN [db |-> newDb, processed |-> processed, errors |-> errors, trace |-> trace]
    ELSE LET entry == Head(entries)
             embedding == IF newDb[entry.id] # NoVec THEN newDb[entry.id]
                          ELSE generateEmbedding(EmbeddingText(entry.title, entry.content),
                                                 entry.id \notin embBad)
         IN  RebuildLoopSavingEach(
                 Tail(entries), total, [newDb EXCEPT ![entry.id] = embedding],
                 processed + 1, IF embedding = NoVec THEN errors + 1 ELSE errors,
                 trace \o (IF newDb[entry.id] # NoVec THEN <<>>
                           ELSE <<Event("embed", entry.id,
                                        IF embedding = NoVec THEN 0 ELSE 1, 0)>>)
                       \o <<Event("progress", "", processed + 1, total),
                            Event("save", "", 0, 0)>>,
                 embBad)

\* The loop of rebuildVectorIndex over allEntries, total of them in all;
\* embBad: the ids whose embedding request returns null.  generateEmbedding
\* does not throw, so the catch of the loop body is never entered.
RECURSIVE RebuildLoop(_, _, _, _, _, _, _)
RebuildLoop(entries, total, newDb, processed, errors, trace, embBad) ==
    IF entries = <<>>
    THEN [db |-> newDb, processed |-> processed, errors |-> errors, trace |-> trace]
    ELSE LET entry == Head(entries)
             report == <<Event("progress", "", processed + 1, total)>>
         IN  IF newDb[entry.id] # NoVec
             THEN RebuildLoop(Tail(entries), total, newDb, processed + 1, errors,
                              trace \o report, embBad)
             ELSE LET embedding == generateEmbedding(
                                       EmbeddingText(entry.title, entry.content),
                                       entry.id \notin embBad)
                  IN  IF embedding # NoVec
                      THEN RebuildLoop(Tail(entries), total,
                                       [newDb EXCEPT ![entry.id] = embedding],
                                       processed + 1, errors,
                                       trace \o <<Event("embed", entry.id, 1, 0)>> \o report,
                                       embBad)
                      ELSE RebuildLoop(Tail(entries), total, newDb, processed + 1,
                                       errors + 1,
                                       trace \o <<Event("embed", entry.id, 0, 0)>> \o report,
                                       embBad)

\* rebuildVectorIndex
rebuildVectorIndex(w, t, e, bad, embBad) ==
    LET Saved(all, r) ==
            [Outcome(saveVectorDB([all.w EXCEPT !.indexCalls = @ + 2,
                                                !.trace = r.trace
                                                    \o <<Event("save", "", 0, 0),
                                                         Event("return", "", r.processed,
                                                               r.errors)>>],
                                  r.db, e.xs, e.s),
                     <<>>, TRUE, all.served, all.failed, all.ens)
             EXCEPT !.ret = all.ret]
        Looped(all) ==
            Saved(all, RebuildLoop(all.ret, Len(all.ret), loadVectorDB(all.w, e.xl),
                                   0, 0, <<>>, embBad))
    IN  Looped(getAllJournalEntries(w, t, e, bad))

\* The sums of cosineSimilarity over the first n components
RECURSIVE Dot(_, _, _)
Dot(a, b, n) == IF n = 0 THEN 0 ELSE Dot(a, b, n - 1) + a[n] * b[n]

\* cosineSimilarity(a, b) for vectors of the provider's dimension, or an
\* empty b.  The value dot / (magA * magB) is kept as the fraction
\* num / den = dot * |dot| / (magA^2 * magB^2), which orders scores as their
\* values do; 0 is 0 / 1.
cosineSimilarity(a, b) ==
    IF Dot(a, a, Len(a)) = 0 \/ Dot(b, b, Len(b)) = 0 THEN [num |-> 0, den |-> 1]
    ELSE LET dot == Dot(a, b, Len(a))
         IN  [num |-> dot * (IF dot < 0 THEN -dot ELSE dot),
              den |-> Dot(a, a, Len(a)) * Dot(b, b, Len(b))]

\* x - y > 0 for scores x and y
ScoreAbove(x, y) == x.num * y.den > y.num * x.den

\* A loop that skips no entry
AnyEmbedding(vectorDb, id) == TRUE

\* const emb = vectorDb[entry.id]; if (!emb) continue;
HasEmbedding(vectorDb, id) == vectorDb[id] # NoVec

\* The loop of semanticSearch over allEntries
RECURSIVE Similarities(_, _, _)
Similarities(entries, vectorDb, queryEmbedding) ==
    IF entries = <<>> THEN <<>>
    ELSE (IF HasEmbedding(vectorDb, Head(entries).id)
          THEN <<[entry |-> Head(entries),
                  score |-> cosineSimilarity(queryEmbedding,
                                             vectorDb[Head(entries).id])]>>
          ELSE <<>>)
         \o Similarities(Tail(entries), vectorDb, queryEmbedding)

\* The list left as it was built
KeepOrder(s) == s

\* similarities.sort((a, b) => b.score - a.score): a stable sort
RECURSIVE SortByScore(_)
SortByScore(s) ==
    IF Len(s) <= 1 THEN s
    ELSE LET rest == SortByScore(SubSeq(s, 1, Len(s) - 1))
             x == s[Len(s)]
             before == {i \in 1..Len(rest) : ScoreAbove(x.score, rest[i].score)}
             k == IF before = {} THEN Len(rest) + 1
                  ELSE CHOOSE i \in before : \A j \in before : i <= j
         IN  SubSeq(rest, 1, k - 1) \o <<x>> \o SubSeq(rest, k, Len(rest))

\* similarities.slice(0, topK).map((s) => s.entry)
SliceEntries(s, topK) ==
    [k \in 1..(IF topK < Len(s) THEN topK ELSE Len(s)) |-> s[k].entry]

\* semanticSearch of an initialized service: the query embedding, then
\* loadVectorDB, then getAllJournalEntries
semanticSearch(w, query, topK, t, e, bad) ==
    LET Ranked(queryEmbedding, vectorDb, all) ==
            Outcome([all.w EXCEPT !.indexCalls = @ + 1],
                    SliceEntries(SortByScore(Similarities(all.ret, vectorDb,
                                                          queryEmbedding)), topK),
                    TRUE, all.served, all.failed, all.ens)
    IN  IF generateEmbedding(query, e.emb) = NoVec
        THEN Outcome(w, <<>>, TRUE, "none", FALSE, NoEns)
        ELSE Ranked(generateEmbedding(query, e.emb), loadVectorDB(w, e.xl),
                    getAllJournalEntries(w, t, e, bad))

(***************************************************************************)
(* Folder operations.  A folder is a record of id, name, parentId,         *)
(* createdAt and updatedAt; description and color travel with name.        *)
(***************************************************************************)
\* getLocalFolders
getLocalFolders(w) == w.localFolders

\* saveLocalFolders; ok: localStorage.setItem succeeds.  A failure is caught
\* and shown with alert().
saveLocalFolders(w, fs, ok) ==
    IF ok THEN [w EXCEPT !.localFolders = fs]
    ELSE [w EXCEPT !.alerted = TRUE, !.unsaved = TRUE]

FolderAt(w, id) == w.folders[w.repoName][id]
PutFolder(w, id, data) ==
    [w EXCEPT !.folders = [@ EXCEPT ![w.repoName] =
                              [@ EXCEPT ![id] = [sha |-> w.nextSha, data |-> <<data>>]]],
              !.nextSha = @ + 1]
RemoveFolder(w, id) ==
    [w EXCEPT !.folders = [@ EXCEPT ![w.repoName] = [@ EXCEPT ![id] = NoFolderFile]]]

\* The folder files of a listing of "folders", in the order of their names
FolderNamesInOrder(w) ==
    (IF FolderAt(w, "folder-a") # NoFolderFile THEN <<"folder-a">> ELSE <<>>)
    \o (IF FolderAt(w, "folder-b") # NoFolderFile THEN <<"folder-b">> ELSE <<>>)

RECURSIVE FetchFolders(_, _, _)
FetchFolders(w, names, bad) ==
    IF names = <<>> THEN <<>>
    ELSE (IF Head(names) \in bad THEN <<>> ELSE FolderAt(w, Head(names)).data)
         \o FetchFolders(w, Tail(names), bad)

\* getAllFolders; bad: the folder files whose fetch fails.  The path
\* "folders" exists only while it holds a file.
getAllFolders(w, t, e, bad) ==
    LET cb == CheckBackend(w, e, t)
        w1 == cb.w
    IN  IF ~w1.avail
        THEN Outcome(w1, getLocalFolders(w1), TRUE, "local", FALSE, EnsOf(cb))
        ELSE IF e.list /\ Reachable(w1) /\ FolderNamesInOrder(w1) # <<>>
        THEN Outcome(w1, FetchFolders(w1, FolderNamesInOrder(w1), bad),
                     TRUE, "remote", FALSE, EnsOf(cb))
        ELSE Outcome(w1, getLocalFolders(w1), TRUE, "local", TRUE, EnsOf(cb))

\* createFolder; id: the id drawn.  The catch of the remote branch rethrows.
createFolder(w, id, name, parentId, t, e) ==
    LET cb == CheckBackend(w, e, t)
        w1 == cb.w
        folder == [id |-> id, name |-> name, parentId |-> parentId,
                   createdAt |-> <<ISO(t)>>, updatedAt |-> <<ISO(t)>>]
    IN  IF ~w1.avail
        THEN Outcome(saveLocalFolders(w1, Append(getLocalFolders(w1), folder), e.s),
                     <<folder>>, TRUE, "local", FALSE, EnsOf(cb))
        ELSE IF e.put /\ Reachable(w1) /\ FolderAt(w1, id) = NoFolderFile
        THEN Outcome(PutFolder(w1, id, folder), <<folder>>, TRUE, "remote", FALSE,
                     EnsOf(cb))
        ELSE [Outcome(w1, <<>>, FALSE, "remote", TRUE, EnsOf(cb)) EXCEPT !.threw = TRUE]

\* folders.findIndex((folder) => folder.id === id)
FolderIndex(fs, id) ==
    LET at == {i \in 1..Len(fs) : fs[i].id = id}
    IN  IF at = {} THEN -1 ELSE CHOOSE i \in at : \A j \in at : i <= j

\* updateFolder
updateFolder(w, id, name, t, e) ==
    LET cb == CheckBackend(w, e, t)
        w1 == cb.w
    IN  IF ~w1.avail
        THEN LET fs == getLocalFolders(w1)
                 folderIndex == FolderIndex(fs, id)
             IN  IF folderIndex = -1
                 THEN Outcome(w1, <<>>, FALSE, "local", FALSE, EnsOf(cb))
                 ELSE LET updatedFolder == [fs[folderIndex] EXCEPT !.name = name,
                                                !.updatedAt = <<ISO(t)>>]
                      IN  Outcome(saveLocalFolders(w1, [fs EXCEPT ![folderIndex] =
                                                           updatedFolder], e.s),
                                  <<updatedFolder>>, TRUE, "local", FALSE, EnsOf(cb))
        ELSE IF e.get /\ e.put /\ Reachable(w1) /\ FolderAt(w1, id) # NoFolderFile
        THEN LET updatedFolder == [FolderAt(w1, id).data[1] EXCEPT !.name = name,
                                       !.updatedAt = <<ISO(t)>>]
             IN  Outcome(PutFolder(w1, id, updatedFolder), <<updatedFolder>>, TRUE,
                         "remote", FALSE, EnsOf(cb))
        ELSE Outcome(w1, <<>>, FALSE, "remote", TRUE, EnsOf(cb))

\* folders.filter((folder) => folder.id !== id)
RECURSIVE FilterFolders(_, _)
FilterFolders(fs, id) ==
    IF fs = <<>> THEN <<>>
    ELSE (IF Head(fs).id # id THEN <<Head(fs)>> ELSE <<>>) \o FilterFolders(Tail(fs), id)

\* deleteFolder
deleteFolder(w, id, t, e) ==
    LET cb == CheckBackend(w, e, t)
        w1 == cb.w
    IN  IF ~w1.avail
        THEN LET fs == getLocalFolders(w1)
                 filteredFolders == FilterFolders(fs, id)
             IN  IF Len(filteredFolders) = Len(fs)
                 THEN Outcome(w1, <<>>, FALSE, "local", FALSE, EnsOf(cb))
                 ELSE Outcome(saveLocalFolders(w1, filteredFolders, e.s),
                              <<>>, TRUE, "local", FALSE, EnsOf(cb))
        ELSE IF e.get /\ e.del /\ Reachable(w1) /\ FolderAt(w1, id) # NoFolderFile
        THEN Outcome(RemoveFolder(w1, id), <<>>, TRUE, "remote", FALSE, EnsOf(cb))
        ELSE Outcome(w1, <<>>, FALSE, "remote", TRUE, EnsOf(cb))

\* moveFolder: the new parent is stored as given
moveFolder(w, folderId, newParentId, t, e) ==
    LET cb == CheckBackend(w, e, t)
        w1 == cb.w
    IN  IF ~w1.avail
        THEN LET fs == getLocalFolders(w1)
                 folderIndex == FolderIndex(fs, folderId)
             IN  IF folderIndex = -1
                 THEN Outcome(w1, <<>>, FALSE, "local", FALSE, EnsOf(cb))
                 ELSE LET movedFolder == [fs[folderIndex] EXCEPT !.parentId = newParentId,
                                              !.updatedAt = <<ISO(t)>>]
                      IN  Outcome(saveLocalFolders(w1, [fs EXCEPT ![folderIndex] =
                                                           movedFolder], e.s),
                                  <<movedFolder>>, TRUE, "local", FALSE, EnsOf(cb))
        ELSE IF e.get /\ e.put /\ Reachable(w1) /\ FolderAt(w1, folderId) # NoFolderFile
        THEN LET movedFolder == [FolderAt(w1, folderId).data[1] EXCEPT
                                     !.parentId = newParentId, !.updatedAt = <<ISO(t)>>]
             IN  Outcome(PutFolder(w1, folderId, movedFolder), <<movedFolder>>, TRUE,
                         "remote", FALSE, EnsOf(cb))
        ELSE Outcome(w1, <<>>, FALSE, "remote", TRUE, EnsOf(cb))

\* folders.find((folder) => folder.id === folderId) || null
FindFolder(fs, folderId) ==
    IF FolderIndex(fs, folderId) = -1 THEN <<>> ELSE <<fs[FolderIndex(fs, folderId)]>>

\* getFolderById
getFolderById(w, folderId, t, e) ==
    LET cb == CheckBackend(w, e, t)
        w1 == cb.w
    IN  IF ~w1.avail
        THEN LET found == FindFolder(getLocalFolders(w1), folderId)
             IN  Outcome(w1, found, found # <<>>, "local", FALSE, EnsOf(cb))
        ELSE IF e.get /\ Reachable(w1) /\ FolderAt(w1, folderId) # NoFolderFile
        THEN Outcome(w1, FolderAt(w1, folderId).data, TRUE, "remote", FALSE, EnsOf(cb))
        ELSE Outcome(w1, <<>>, FALSE, "remote", TRUE, EnsOf(cb))

(***************************************************************************)
(* The state machine                                                       *)
(***************************************************************************)
\* What callers hand to createJournalEntry and updateJournalEntry
Inputs ==
    {[title |-> <<"A">>, content |-> <<"hello">>, folderId |-> Undefined],
     [title |-> <<"createdAt: ", "x">>, content |-> <<"world", "\n">>,
      folderId |-> <<"f1">>]}
FolderArgs == {Undefined, <<"f1">>}

\* No index writer is running; the index blob has its first version token
NoWriter == [pc |-> "idle", id |-> "", db |-> <<>>, loadSha |-> 0, sha |-> 0,
             raced |-> FALSE, accepted |-> FALSE]
NoIx == [sha |-> 1, w |-> [p \in Callers |-> NoWriter]]

\* getFolderPath is not running and has not run
NoWalk == [pc |-> "idle", data |-> <<>>, currentFolder |-> <<>>, path |-> <<>>]

NoCall == [op |-> "none", id |-> "", title |-> <<>>, ret |-> <<>>, ok |-> FALSE,
           threw |-> FALSE, served |-> "none", failed |-> FALSE, ens |-> NoEns,
           alerted |-> FALSE, indexOk |-> TRUE, topK |-> 0, trace |-> <<>>]

\* The repository as an earlier session that wrote one entry left it
StoredFiles ==
    [InitialFiles EXCEPT ![EntryId(1)] =
        [sha |-> 1, text |-> FrontMatter(<<"A">>, <<ISO(1)>>, <<ISO(1)>>, Undefined,
                                         <<"hello">>)]]

\* A file named like an entry that was not written by the store: it has no
\* metadata block
ForeignText == <<"#", " ", "notes", "\n", "body">>
ForeignFiles ==
    [InitialFiles EXCEPT ![EntryId(1)] = [sha |-> 1, text |-> ForeignText]]

\* key: an OpenAI API key is configured; create: the token may create
\* repositories; envs: what the account holds under the derived name;
\* table: the files of the repository; sha: the next sha it hands out
InitRepo(key, create, envs, table, sha) ==
    /\ octokit = FALSE
    /\ canCreate = create
    /\ username = NoUser
    /\ repoName = DefaultRepoName
    /\ githubAvailable = TRUE
    /\ \E r \in envs :
          /\ repos = IF r = "owned" THEN {DerivedName(Login)} ELSE {}
          /\ hidden = IF r = "hidden" THEN {DerivedName(Login)} ELSE {}
    /\ files = [r \in repos |-> table]
    /\ folders = [r \in repos |-> NoFolders]
    /\ vdb = [r \in repos |-> EmptyDb]
    /\ localEntries = <<>>
    /\ localFolders = <<>>
    /\ localVdb = EmptyDb
    /\ now = 1
    /\ nextSha = sha
    /\ bg = FALSE
    /\ apiKey = key
    /\ upd = [p \in Callers |-> <<>>]
    /\ walk = NoWalk
    /\ ix = NoIx
    /\ last = NoCall

\* stored: the repository holds an entry of an earlier session
InitWith(key, create, envs, stored) ==
    InitRepo(key, create, envs, IF stored THEN StoredFiles ELSE InitialFiles,
             IF stored THEN 2 ELSE 1)

\* The service after construction, no OpenAI API key configured
Init == InitWith(FALSE, TRUE, {"none", "owned", "hidden"}, FALSE)

\* A call with the number k among its arguments returns outcome o
ReturnWith(op, id, title, k, e, o) ==
    /\ o.w.nextSha <= MaxSha + 1
    /\ Len(o.w.localEntries) + Len(o.w.localFolders) <= MaxLocal
    /\ Commit(o.w)
    /\ last' = [op |-> op, id |-> id, title |-> title, ret |-> o.ret, ok |-> o.ok,
                threw |-> o.threw, served |-> o.served, failed |-> o.failed,
                ens |-> o.ens, alerted |-> o.w.alerted,
                indexOk |-> e.emb /\ e.xl /\ e.xs /\ e.s, topK |-> k,
                trace |-> o.w.trace]

\* A call returns outcome o
Return(op, id, title, e, o) == ReturnWith(op, id, title, 0, e, o)

\* if (!this.octokit || !this.username) throw new Error(...)
Throws(op) ==
    /\ last' = [NoCall EXCEPT !.op = op, !.threw = TRUE]
    /\ UNCHANGED <<username, repoName, githubAvailable, repos, files, folders, vdb,
                   localEntries, localFolders, localVdb, nextSha>>

\* initialize(accessToken, username): also starts verifyGitHubAccess and,
\* after it, ensureRepoExists
Initialize(u) ==
    /\ octokit' = TRUE
    /\ username' = u
    /\ githubAvailable' = TRUE
    /\ repoName' = DerivedName(u)
    /\ bg' = TRUE
    /\ last' = [NoCall EXCEPT !.op = "initialize"]
    /\ UNCHANGED <<canCreate, repos, hidden, files, folders, vdb, localEntries,
                   localFolders, localVdb, now, nextSha, apiKey, upd, walk, ix>>

\* The task of initialize:
\*   this.verifyGitHubAccess().then((success) => { if (success) this.ensureRepoExists() })
Background ==
    /\ bg
    /\ \E e \in Envs({"v", "l", "g", "c", "c2"}) :
          LET w1 == verifyGitHubAccess(World, e.v)
              r == ensureRepoExists(w1, e, now)
          IN  IF e.v
              THEN /\ Commit(r.w)
                   /\ last' = [NoCall EXCEPT !.op = "ensureRepoExists", !.ok = r.ret,
                                             !.ens = EnsOf(r)]
              ELSE /\ Commit(w1)
                   /\ UNCHANGED last
    /\ bg' = FALSE
    /\ UNCHANGED <<octokit, canCreate, hidden, now, apiKey, upd, walk, ix>>

Tick ==
    /\ now < MaxClock
    /\ now' = now + 1
    /\ UNCHANGED <<octokit, username, repoName, githubAvailable, canCreate, repos,
                   hidden, files, folders, vdb, localEntries, localFolders, localVdb,
                   nextSha, bg, apiKey, upd, walk, ix, last>>

BackendFields == {"v", "l", "g", "c", "c2"}
\* Without an API key no embedding is made and the index stays as it is: the
\* index requests then make no difference to a call
IndexFields == IF apiKey THEN {"emb", "xl", "xs", "s"} ELSE {"s"}
CreateEnvs == Envs(BackendFields \cup IndexFields \cup {"put"})
GetAllEnvs == Envs(BackendFields \cup {"list", "fetch"})
GetByIdEnvs == Envs({"v", "get"})
UpdateEnvs == Envs(BackendFields \cup IndexFields \cup {"v2", "get", "sha", "put"})
DeleteEnvs == Envs(BackendFields \cup IndexFields \cup {"sha", "del"})
MoveEnvs == Envs(BackendFields \cup {"v2", "get", "sha", "put", "s"})
RebuildEnvs == Envs(BackendFields \cup IndexFields \cup {"list", "fetch"})

\* The files a failing fetch (or embedding request) may hit
BadSets(ok) == IF ok THEN {{}} ELSE {{i} : i \in Ids}

UpdateReadEnvs == Envs(BackendFields \cup {"v2", "get", "sha", "s"})
UpdateWriteEnvs == Envs(IndexFields \cup {"put"})
FolderEnvs == Envs(BackendFields \cup {"get", "put", "del", "s"})
FolderListEnvs == Envs(BackendFields \cup {"list", "fetch"})
FolderBadSets(ok) == IF ok THEN {{}} ELSE {{f} : f \in FolderIds}
FolderNames == {<<"work">>, <<"home">>}
ParentArgs == {Undefined} \cup {<<f>> : f \in FolderIds}

\* The folder ids in use, in the repository of the current name and locally
UsedFolderIds ==
    {f \in FolderIds : repoName \in repos /\ folders[repoName][f] # NoFolderFile}
    \cup {localFolders[i].id : i \in 1..Len(localFolders)}


CreateEntryIn(envs) ==
    /\ IF ~octokit THEN Throws("createEntry")
       ELSE \E i \in Inputs, e \in envs :
               Return("createEntry", EntryId(now), i.title, e,
                      createJournalEntry(World, i.title, i.content, i.folderId, now, e))
    /\ UNCHANGED <<octokit, canCreate, hidden, now, bg, apiKey, upd, walk, ix>>

CreateEntry == CreateEntryIn(CreateEnvs)

GetAllEntries ==
    /\ IF ~octokit THEN Throws("getAllEntries")
       ELSE \E e \in GetAllEnvs : \E bad \in BadSets(e.fetch) :
               Return("getAllEntries", "", <<>>, e, getAllJournalEntries(World, now, e, bad))
    /\ UNCHANGED <<octokit, canCreate, hidden, now, bg, apiKey, upd, walk, ix>>

GetEntryById ==
    /\ IF ~octokit THEN Throws("getEntryById")
       ELSE \E id \in FileNames, e \in GetByIdEnvs :
               LET g == getJournalEntryById(World, id, now, e.v, e.get)
               IN  Return("getEntryById", id, <<>>, e,
                          Outcome(g.w, g.ret, g.ret # <<>>, g.served, FALSE, NoEns))
    /\ UNCHANGED <<octokit, canCreate, hidden, now, bg, apiKey, upd, walk, ix>>

UpdateEntryIn(envs) ==
    /\ IF ~octokit THEN Throws("updateEntry")
       ELSE \E id \in Ids, i \in Inputs, e \in envs :
               Return("updateEntry", id, i.title, e,
                      updateJournalEntry(World, id, i.title, i.content, i.folderId, now, e))
    /\ UNCHANGED <<octokit, canCreate, hidden, now, bg, apiKey, upd, walk, ix>>

UpdateEntry == UpdateEntryIn(UpdateEnvs)

\* The updateJournalEntry call of caller p has read and not yet written
Pending(p) == IF upd[p] = <<>> THEN FALSE ELSE upd[p][1].phase = "pending"

\* Caller p starts updateJournalEntry; the call runs up to its write request,
\* or returns when it ends before that
UpdateBegin(p) ==
    /\ octokit
    /\ ~Pending(p)
    /\ \E id \in Ids, i \in Inputs, e \in UpdateReadEnvs :
          LET r == updateRead(World, id, i.title, i.content, i.folderId, now, e)
          IN  IF r.pending = <<>>
              THEN /\ Return("updateEntry", id, i.title, e, r.out)
                   /\ upd' = [upd EXCEPT ![p] = <<>>]
              ELSE /\ Commit(r.out.w)
                   /\ upd' = [upd EXCEPT ![p] = <<[phase |-> "pending", u |-> r.pending[1],
                                                   ens |-> r.out.ens, cur |-> 0,
                                                   accepted |-> FALSE, ret |-> <<>>,
                                                   writes |-> 0]>>]
                   /\ UNCHANGED last
    /\ UNCHANGED <<octokit, canCreate, hidden, now, bg, apiKey, walk, ix>>

\* The write request of caller p and the rest of its call.  cur: the sha the
\* file had when the write was issued.
UpdateEnd(p) ==
    /\ Pending(p)
    /\ \E e \in UpdateWriteEnvs :
          LET c == upd[p][1]
              r == updateWrite(World, c.u, c.ens, e)
          IN  /\ Return("updateEntry", c.u.id, c.u.title, e, r.out)
              /\ upd' = [upd EXCEPT ![p] = <<[c EXCEPT !.phase = "done",
                                                !.cur = FileAt(World, c.u.id).sha,
                                                !.accepted = r.out.ok,
                                                !.ret = r.out.ret,
                                                !.writes = r.writes]>>]
    /\ UNCHANGED <<octokit, canCreate, hidden, now, bg, apiKey, walk, ix>>

DeleteEntryIn(envs) ==
    /\ IF ~octokit THEN Throws("deleteEntry")
       ELSE \E id \in Ids, e \in envs :
               Return("deleteEntry", id, <<>>, e, deleteJournalEntry(World, id, now, e))
    /\ UNCHANGED <<octokit, canCreate, hidden, now, bg, apiKey, upd, walk, ix>>

DeleteEntry == DeleteEntryIn(DeleteEnvs)

MoveEntryToFolder ==
    /\ IF ~octokit THEN Throws("moveEntryToFolder")
       ELSE \E id \in Ids, f \in FolderArgs, e \in MoveEnvs :
               Return("moveEntryToFolder", id, <<>>, e,
                      moveEntryToFolder(World, id, f, now, e))
    /\ UNCHANGED <<octokit, canCreate, hidden, now, bg, apiKey, upd, walk, ix>>

RebuildVectorIndexIn(envs) ==
    /\ IF ~octokit THEN Throws("rebuildVectorIndex")
       ELSE \E e \in envs : \E bad \in BadSets(e.fetch), embBad \in BadSets(e.emb) :
               Return("rebuildVectorIndex", "", <<>>, e,
                      rebuildVectorIndex(World, now, e, bad, embBad))
    /\ UNCHANGED <<octokit, canCreate, hidden, now, bg, apiKey, upd, walk, ix>>

RebuildVectorIndex == RebuildVectorIndexIn(RebuildEnvs)

GetAllFolders ==
    /\ IF ~octokit THEN Throws("getAllFolders")
       ELSE \E e \in FolderListEnvs : \E bad \in FolderBadSets(e.fetch) :
               Return("getAllFolders", "", <<>>, e, getAllFolders(World, now, e, bad))
    /\ UNCHANGED <<octokit, canCreate, hidden, now, bg, apiKey, upd, walk, ix>>

\* The id drawn is one no stored folder has (it has a random part), so the
\* parent the caller names is a folder that exists, or none
CreateFolderIn(envs) ==
    /\ IF ~octokit THEN Throws("createFolder")
       ELSE \E id \in FolderIds \ UsedFolderIds, n \in FolderNames,
               parent \in {Undefined} \cup {<<f>> : f \in UsedFolderIds},
               e \in envs :
               Return("createFolder", id, n, e, createFolder(World, id, n, parent, now, e))
    /\ UNCHANGED <<octokit, canCreate, hidden, now, bg, apiKey, upd, walk, ix>>

CreateFolder == CreateFolderIn(FolderEnvs)

\* retryGitHubConnection returns false on an uninitialized service
RetryEnvs == Envs({"c", "put"})
RetryGitHubConnection ==
    /\ \E e \in RetryEnvs : \E bad \in BadSets(e.put) :
          Return("retryGitHubConnection", "", <<>>, e,
                 retryGitHubConnection(World, now, e, bad))
    /\ UNCHANGED <<octokit, canCreate, hidden, now, bg, apiKey, upd, walk, ix>>

UpdateFolder ==
    /\ IF ~octokit THEN Throws("updateFolder")
       ELSE \E id \in FolderIds, n \in FolderNames, e \in FolderEnvs :
               Return("updateFolder", id, n, e, updateFolder(World, id, n, now, e))
    /\ UNCHANGED <<octokit, canCreate, hidden, now, bg, apiKey, upd, walk, ix>>

DeleteFolder ==
    /\ IF ~octokit THEN Throws("deleteFolder")
       ELSE \E id \in FolderIds, e \in FolderEnvs :
               Return("deleteFolder", id, <<>>, e, deleteFolder(World, id, now, e))
    /\ UNCHANGED <<octokit, canCreate, hidden, now, bg, apiKey, upd, walk, ix>>

MoveFolder ==
    /\ IF ~octokit THEN Throws("moveFolder")
       ELSE \E id \in FolderIds, parent \in ParentArgs, e \in FolderEnvs :
               Return("moveFolder", id, <<>>, e, moveFolder(World, id, parent, now, e))
    /\ UNCHANGED <<octokit, canCreate, hidden, now, bg, apiKey, upd, walk, ix>>

GetFolderById ==
    /\ IF ~octokit THEN Throws("getFolderById")
       ELSE \E id \in FolderIds, e \in FolderEnvs :
               Return("getFolderById", id, <<>>, e, getFolderById(World, id, now, e))
    /\ UNCHANGED <<octokit, canCreate, hidden, now, bg, apiKey, upd, walk, ix>>

\* What the search box may hold, and the numbers of results asked for
Queries == {<<"A">>, <<"z">>}
TopKs == 0..MaxTopK
SearchEnvs == Envs({"v", "emb", "xl", "fetch"})
\* createEntry under the faults that bear on a search
SearchCreateEnvs == Envs({"emb", "xs"})

\* semanticSearch has no check of its own: an uninitialized service throws
\* in getAllJournalEntries, after the query embedding was made
SemanticSearchIn(envs) ==
    /\ \E q \in Queries, k \in TopKs, e \in envs : \E bad \in BadSets(e.fetch) :
          IF ~octokit /\ generateEmbedding(q, e.emb) # NoVec
          THEN Throws("semanticSearch")
          ELSE ReturnWith("semanticSearch", "", q, k, e,
                          semanticSearch(World, q, k, now, e, bad))
    /\ UNCHANGED <<octokit, canCreate, hidden, now, bg, apiKey, upd, walk, ix>>

SemanticSearch == SemanticSearchIn(SearchEnvs)

\* A write that sends the sha the blob had when the index was loaded
PutShaOfLoad(u) == u.loadSha

\* The sha a write of saveVectorDB sends: the one it fetched just before
PutSha(u) == u.sha

\* What the index writers leave alone
IxFrame ==
    UNCHANGED <<octokit, username, repoName, githubAvailable, canCreate, repos, hidden,
                files, folders, localEntries, localFolders, now, nextSha, bg, apiKey,
                upd, walk, last>>

\* The texts an upsert is given
UpsertTexts == {<<"A">>, <<"z">>}

\* Writer p calls upsertEntryEmbedding(id, text) against the remote store and
\* runs up to the end of loadVectorDB: the embedding is made, the index is
\* read, the record is set in the copy
UpsertLoad(p) ==
    /\ octokit /\ githubAvailable /\ Reachable(World)
    /\ ix.w[p].pc \in {"idle", "done"}
    /\ ix.sha <= MaxSha
    /\ \E id \in Ids, text \in UpsertTexts :
          ix' = [ix EXCEPT !.w[p] =
                    [pc |-> "loaded", id |-> id,
                     db |-> [loadVectorDB(World, TRUE)
                                EXCEPT ![id] = generateEmbedding(text, TRUE)],
                     loadSha |-> ix.sha, sha |-> 0, raced |-> FALSE,
                     accepted |-> FALSE]]
    /\ UNCHANGED <<vdb, localVdb>>
    /\ IxFrame

\* saveVectorDB of writer p up to its write request: the localStorage copy is
\* saved, the sha of vector_db.json is fetched
UpsertSha(p) ==
    /\ ix.w[p].pc = "loaded"
    /\ localVdb' = saveLocalVectorDB(World, ix.w[p].db, TRUE).localVdb
    /\ ix' = [ix EXCEPT !.w[p].pc = "sha", !.w[p].sha = ix.sha]
    /\ UNCHANGED vdb
    /\ IxFrame

\* The write request of writer p: accepted when the sha sent is the one the
\* blob has; a rejected write is caught and logged by saveVectorDB.  Either
\* way the upsert returns without an error.  raced: another writer's write
\* came between this writer's sha request and its write.
UpsertPut(p) ==
    /\ ix.w[p].pc = "sha"
    /\ IF PutSha(ix.w[p]) = ix.sha
       THEN /\ vdb' = [vdb EXCEPT ![repoName] = ix.w[p].db]
            /\ ix' = [sha |-> ix.sha + 1,
                      w |-> [q \in Callers |->
                               IF q = p
                               THEN [ix.w[p] EXCEPT !.pc = "done", !.accepted = TRUE]
                               ELSE IF ix.w[q].pc = "sha"
                               THEN [ix.w[q] EXCEPT !.raced = TRUE]
                               ELSE ix.w[q]]]
       ELSE /\ ix' = [ix EXCEPT !.w[p].pc = "done"]
            /\ UNCHANGED vdb
    /\ UNCHANGED localVdb
    /\ IxFrame

\* getFolderPath(folderId) of the folders hook, up to its loop: query.data is
\* what the last getAllFolders returned;
\*   const path = []; let currentFolder = getFolderById(folderId);
GetFolderPath(folderId) ==
    /\ walk.pc # "loop"
    /\ last.op = "getAllFolders" /\ ~last.threw
    /\ walk' = [pc |-> "loop", data |-> last.ret,
                currentFolder |-> FindFolder(last.ret, folderId), path |-> <<>>]
    /\ UNCHANGED <<octokit, username, repoName, githubAvailable, canCreate, repos,
                   hidden, files, folders, vdb, localEntries, localFolders, localVdb,
                   now, nextSha, bg, apiKey, upd, ix, last>>

\* One test of the loop condition and, when it holds, one run of the body:
\*   while (currentFolder) { path.unshift(currentFolder);
\*     currentFolder = currentFolder.parentId
\*       ? getFolderById(currentFolder.parentId) : undefined; }
\*   return path;
GetFolderPathStep ==
    /\ walk.pc = "loop"
    /\ IF walk.currentFolder = <<>>
       THEN walk' = [walk EXCEPT !.pc = "done"]
       ELSE /\ Len(walk.path) < MaxPath
            /\ walk' = [walk EXCEPT
                   !.path = walk.currentFolder \o @,
                   !.currentFolder =
                       IF Truthy(walk.currentFolder[1].parentId)
                       THEN FindFolder(walk.data, walk.currentFolder[1].parentId[1])
                       ELSE <<>>]
    /\ UNCHANGED <<octokit, username, repoName, githubAvailable, canCreate, repos,
                   hidden, files, folders, vdb, localEntries, localFolders, localVdb,
                   now, nextSha, bg, apiKey, upd, ix, last>>

\* The entry store as its readers and createEntry see it
Next ==
    \/ \E u \in Usernames : Initialize(u)
    \/ Background
    \/ Tick
    \/ CreateEntry
    \/ GetAllEntries
    \/ GetEntryById

Spec == Init /\ [][Next]_vars

\* Entries edited and deleted, the repository present or created on demand
InitEdit == InitWith(FALSE, TRUE, {"owned"}, FALSE)
NextEdit ==
    \/ Initialize(Login)
    \/ CreateEntry
    \/ UpdateEntry
    \/ DeleteEntry
    \/ GetAllEntries

SpecEdit == InitEdit /\ [][NextEdit]_vars

\* An entry of an earlier session, updated and moved
InitRevise == InitWith(FALSE, TRUE, {"owned"}, TRUE)
NextRevise ==
    \/ Initialize(Login)
    \/ Tick
    \/ UpdateEntry
    \/ MoveEntryToFolder
    \/ GetAllEntries

SpecRevise == InitRevise /\ [][NextRevise]_vars

\* The vector index, an OpenAI API key configured
InitIndex == InitWith(TRUE, TRUE, {"none"}, FALSE)
NextIndex ==
    \/ Initialize(Login)
    \/ CreateEntry
    \/ DeleteEntry
    \/ RebuildVectorIndex

SpecIndex == InitIndex /\ [][NextIndex]_vars

\* Two callers whose updateJournalEntry calls interleave at the write
InitConc == InitWith(FALSE, TRUE, {"owned"}, TRUE)
NextConc ==
    \/ Initialize(Login)
    \/ \E p \in Callers : UpdateBegin(p)
    \/ \E p \in Callers : UpdateEnd(p)

SpecConc == InitConc /\ [][NextConc]_vars

\* The folder operations
InitFolders == InitWith(FALSE, TRUE, {"owned"}, FALSE)
NextFolders ==
    \/ Initialize(Login)
    \/ Tick
    \/ GetAllFolders
    \/ CreateFolder
    \/ UpdateFolder
    \/ DeleteFolder
    \/ MoveFolder
    \/ GetFolderById

SpecFolders == InitFolders /\ [][NextFolders]_vars

\* A token that may not create repositories, no repository present: every
\* create request fails
InitLocal == InitWith(FALSE, FALSE, {"none"}, FALSE)
NextLocal ==
    \/ Initialize(Login)
    \/ Background
    \/ CreateEntry
    \/ GetAllEntries
    \/ UpdateEntry
    \/ DeleteEntry
    \/ MoveEntryToFolder
    \/ GetAllFolders
    \/ CreateFolder
    \/ UpdateFolder
    \/ DeleteFolder
    \/ MoveFolder
    \/ GetFolderById

SpecLocal == InitLocal /\ [][NextLocal]_vars

\* The folders hook: folders are created and moved, listed, and a path is
\* asked for; getFolderPath runs to its end before anything else happens
InitPath == InitWith(FALSE, TRUE, {"owned"}, FALSE)
NextPath ==
    \/ Initialize(Login)
    \/ walk.pc # "loop" /\ CreateFolder
    \/ walk.pc # "loop" /\ MoveFolder
    \/ walk.pc # "loop" /\ GetAllFolders
    \/ \E f \in FolderIds : GetFolderPath(f)
    \/ GetFolderPathStep

SpecPath == InitPath /\ [][NextPath]_vars

\* Search over the entries and their index, an OpenAI API key configured
InitSearch == InitWith(TRUE, TRUE, {"owned"}, FALSE)
NextSearch ==
    \/ Initialize(Login)
    \/ Tick
    \/ CreateEntryIn(SearchCreateEnvs)
    \/ SemanticSearch

SpecSearch == InitSearch /\ [][NextSearch]_vars

\* Search over an index that outlives entries: deleteEntry whose index write
\* fails, or that runs while the backend cannot be verified
StaleCreateEnvs == Envs({})
StaleDeleteEnvs == Envs({"xs"})
StaleSearchEnvs == Envs({"xl"})
NextStale ==
    \/ Initialize(Login)
    \/ Tick
    \/ CreateEntryIn(StaleCreateEnvs)
    \/ DeleteEntryIn(StaleDeleteEnvs)
    \/ SemanticSearchIn(StaleSearchEnvs)

SpecStale == InitSearch /\ [][NextStale]_vars

\* Entries written, edited and searched while the embedding request may fail
EmbedEnvs == Envs({"emb"})
NextEmbed ==
    \/ Initialize(Login)
    \/ CreateEntryIn(EmbedEnvs)
    \/ UpdateEntryIn(EmbedEnvs)
    \/ SemanticSearchIn(EmbedEnvs)

SpecEmbed == InitSearch /\ [][NextEmbed]_vars

\* Rebuilds of the index over entries that may lack a record: an embedding
\* request, the index read, the index write or a file fetch may fail, and
\* the index read may fail together with an embedding request
RebuildCreateEnvs == Envs({"emb"})
RebuildRunEnvs ==
    Envs({"emb", "xl", "xs", "fetch"})
        \cup {[f \in EnvFields |-> f \notin {"emb", "xl"}]}
NextRebuild ==
    \/ Initialize(Login)
    \/ Tick
    \/ CreateEntryIn(RebuildCreateEnvs)
    \/ RebuildVectorIndexIn(RebuildRunEnvs)

SpecRebuild == InitSearch /\ [][NextRebuild]_vars

\* The forced retry: no repository exists, the create request of
\* ensureRepoExists fails so that records go to localStorage, and the retry
\* moves them
InitRetry == InitWith(FALSE, TRUE, {"none"}, FALSE)
RetryCreateEnvs == {[f \in EnvFields |-> f # "c"]}
NextRetry ==
    \/ Initialize(Login)
    \/ CreateEntryIn(RetryCreateEnvs)
    \/ CreateFolderIn(RetryCreateEnvs)
    \/ RetryGitHubConnection

SpecRetry == InitRetry /\ [][NextRetry]_vars

\* Two writers of the vector index whose upserts interleave
NextWriters ==
    \/ Initialize(Login)
    \/ \E p \in Callers : UpsertLoad(p)
    \/ \E p \in Callers : UpsertSha(p)
    \/ \E p \in Callers : UpsertPut(p)

SpecWriters == InitSearch /\ [][NextWriters]_vars

\* A repository that also holds a file the store did not write
InitForeign == InitRepo(FALSE, TRUE, {"owned"}, ForeignFiles, 1)
NextForeign ==
    \/ Initialize(Login)
    \/ Tick
    \/ CreateEntry
    \/ GetAllEntries
    \/ GetEntryById

SpecForeign == InitForeign /\ [][NextForeign]_vars

(***************************************************************************)
(* The claims                                                              *)
(***************************************************************************)
NoFaults == [f \in EnvFields |-> TRUE]

EntryOps == {"createEntry", "getAllEntries", "updateEntry", "deleteEntry"}

\* C1: when ensureRepoExists has its create request for the derived name
\* rejected as "already exists", it changes the store name to the derived
\* name plus a timestamp suffix and issues exactly one further create
\* request, for the suffixed name, before it returns.
C1_ConflictRetriesUnderSuffixedName ==
    (last.ens.called /\ last.ens.conflict) =>
        /\ Len(last.ens.creates) = 2
        /\ last.ens.creates[1] = DerivedName(username)
        /\ \E t \in Times : last.ens.creates[2] = SuffixedName(username, t)
        /\ repoName = last.ens.creates[2]

\* C2: when the create request fails for a reason other than "already
\* exists" (or the retried create fails), ensureRepoExists returns false, the
\* backend flag is unavailable, and the calling operation completes against
\* LocalCache and returns a normal value without throwing.
C2_CreateFailureServedLocally ==
    (last.ens.called /\ last.ens.failed) =>
        /\ ~last.ens.ret
        /\ ~githubAvailable
        /\ ~last.threw
        /\ last.op # "ensureRepoExists" => last.served = "local"
        /\ last.op = "getAllEntries" => last.ret = localEntries
        /\ last.op = "getAllFolders" => last.ret = localFolders
        /\ (last.op = "createEntry" /\ ~last.alerted) =>
              /\ last.ret # <<>>
              /\ localEntries # <<>>
              /\ localEntries[Len(localEntries)] = last.ret[1]
        /\ (last.op = "createFolder" /\ ~last.alerted) =>
              /\ last.ret # <<>>
              /\ localFolders # <<>>
              /\ localFolders[Len(localFolders)] = last.ret[1]
        /\ (last.op \in {"updateEntry", "moveEntryToFolder"} /\ last.ok /\ ~last.alerted) =>
              FindLocal(localEntries, last.id) = last.ret
        /\ (last.op = "deleteEntry" /\ last.ok /\ ~last.alerted) =>
              FindLocal(localEntries, last.id) = <<>>
        /\ (last.op \in {"updateFolder", "moveFolder"} /\ last.ok /\ ~last.alerted) =>
              FindFolder(localFolders, last.id) = last.ret
        /\ (last.op = "deleteFolder" /\ last.ok /\ ~last.alerted) =>
              FindFolder(localFolders, last.id) = <<>>

\* An update whose ensureRepoExists saw the create request fail was applied
\* to the entry LocalCache holds
C2_Witness ==
    /\ last.op = "updateEntry"
    /\ last.ens.called /\ last.ens.failed
    /\ last.ok
    /\ last.served = "local"

\* C3: for createEntry, getAllEntries, updateEntry and deleteEntry, when the
\* backend was judged available at the start of the call and a later remote
\* request of the call fails, the call sets the backend mode to unavailable
\* and performs the operation against LocalCache before it returns.
C3_RemoteFailureFallsBackToLocal ==
    (last.op \in EntryOps /\ last.ens.called /\ last.ens.ret /\ last.failed) =>
        /\ ~githubAvailable
        /\ last.served = "local"

\* C4: once the service is initialized, no public entry or folder operation
\* propagates an exception to its caller.
C4_NoOperationThrows ==
    octokit => ~last.threw

Done(p) == IF upd[p] = <<>> THEN FALSE ELSE upd[p][1].phase = "done"

\* Callers p and q have both finished an update of the same id for which
\* they read the same sha
SameToken(p, q) ==
    /\ p # q
    /\ Done(p) /\ Done(q)
    /\ upd[p][1].u.id = upd[q][1].u.id
    /\ upd[p][1].u.sha = upd[q][1].u.sha

\* C5: of two updateEntry calls on the same id that read the same sha, at
\* most one write is accepted; the other call returns null after a single
\* write request, and the stored file holds the content of the accepted write.
C5_StaleTokenWriteRejected ==
    \A p, q \in Callers :
        (SameToken(p, q) /\ upd[p][1].accepted) =>
            /\ ~upd[q][1].accepted
            /\ upd[q][1].ret = <<>>
            /\ upd[p][1].writes = 1
            /\ upd[q][1].writes = 1
            /\ FileAt(World, upd[p][1].u.id).text =
                  FrontMatter(upd[p][1].u.title, upd[p][1].u.createdAt,
                              <<ISO(upd[p][1].u.now)>>, upd[p][1].u.folderId,
                              upd[p][1].u.content)

\* Two calls read the same sha; one write was accepted and the other, issued
\* when the file had a newer sha, was rejected
C5_Witness ==
    \E p, q \in Callers :
        /\ SameToken(p, q)
        /\ upd[p][1].accepted
        /\ ~upd[q][1].accepted
        /\ upd[q][1].cur # upd[q][1].u.sha
        /\ upd[p][1].u.title # upd[q][1].u.title

\* C6: after createEntry returned entry e, a following getEntryById(e.id)
\* returns an entry with the id and title of e and createdAt = updatedAt,
\* in every backend situation in which createEntry can return.
C6_CreatedEntryCanBeRead ==
    (last.op = "createEntry" /\ ~last.threw /\ ~last.alerted) =>
        LET g == getJournalEntryById(World, last.id, now, TRUE, TRUE).ret
        IN  /\ g # <<>>
            /\ g[1].id = last.ret[1].id
            /\ g[1].title = last.ret[1].title
            /\ g[1].createdAt = g[1].updatedAt

\* What getJournalEntryById returns for id in world w when no request fails
StoredIn(w, id) == getJournalEntryById(w, id, now, TRUE, TRUE).ret

\* The entry stored under id after a successful edit o of the entry before
EditKept(o, id, before) ==
    LET after == StoredIn(o.w, id)
    IN  /\ after # <<>>
        /\ after[1].id = before[1].id
        /\ after[1].createdAt = before[1].createdAt
        /\ after[1].updatedAt = <<ISO(now)>>

\* A getAllEntries without failing requests, in world w, shows title under id
ListingShows(w, id, title) ==
    LET all == getAllJournalEntries(w, now, NoFaults, {}).ret
    IN  \E k \in 1..Len(all) : all[k].id = id /\ all[k].title = title

\* C7: a successful updateEntry or moveEntryToFolder on an existing entry
\* leaves its id and createdAt as they were and sets updatedAt to the time of
\* the call, and a following getAllEntries shows the title given to a
\* successful update.
C7_EditKeepsIdentityAndCreation ==
    \A id \in Ids :
        (octokit /\ StoredIn(World, id) # <<>>) =>
            /\ \A i \in Inputs, e \in UpdateEnvs :
                  LET o == updateJournalEntry(World, id, i.title, i.content,
                                              i.folderId, now, e)
                  IN  o.ok => /\ EditKept(o, id, StoredIn(World, id))
                              /\ ListingShows(o.w, id, i.title)
            /\ \A f \in FolderArgs, e \in MoveEnvs :
                  LET o == moveEntryToFolder(World, id, f, now, e)
                  IN  o.ok => EditKept(o, id, StoredIn(World, id))

\* C8: whenever deleteEntry(id) returned true, in either backend mode, the
\* vector index that later searches read holds no record for id, provided
\* the index could be read and written during the call.
C8_DeleteRemovesIndexRecord ==
    (last.op = "deleteEntry" /\ last.ok /\ last.indexOk) =>
        loadVectorDB(World, TRUE)[last.id] = NoVec

\* C9: no two stored entries share an id, also after createEntry calls that
\* read the same clock value.
C9_StoredIdsAreUnique ==
    \A i, j \in 1..Len(localEntries) :
        i # j => localEntries[i].id # localEntries[j].id

\* C10: getAllEntries returns its entries ordered by createdAt descending,
\* whichever store served the call.
C10_ListingNewestFirst ==
    last.op = "getAllEntries" =>
        \A i, j \in 1..Len(last.ret) :
            (/\ i < j
             /\ GetTime(last.ret[i].createdAt) # NaN
             /\ GetTime(last.ret[j].createdAt) # NaN) =>
                GetTime(last.ret[i].createdAt) >= GetTime(last.ret[j].createdAt)

\* The entry files of the current repository, and those among them that a
\* listing can fetch and decode when the fetches of bad fail
EntryFilesOf(w) == {n \in Ids : FileAt(w, n) # NoFile}
DecodableOf(w, bad) ==
    {n \in EntryFilesOf(w) : n \notin bad /\ FrontMatterMatch(FileAt(w, n).text) # <<>>}
RetIds(ret) == {ret[k].id : k \in 1..Len(ret)}

\* C11: a listing served by the remote store returns exactly the entry files
\* that could be fetched and decoded, one entry each: a file whose fetch or
\* decoding fails is skipped and every other one is returned.  Every id
\* createEntry assigns passes the file-name filter, and an entry that
\* createEntry has just written remotely is in the next listing.
C11_ListingSkipsOnlyFailedFiles ==
    /\ \A t \in Times : IsEntryFile(EntryId(t))
    /\ octokit =>
          \A e \in GetAllEnvs : \A bad \in BadSets(e.fetch) :
             LET o == getAllJournalEntries(World, now, e, bad)
             IN  o.served = "remote" =>
                    /\ RetIds(o.ret) = DecodableOf(o.w, bad)
                    /\ Len(o.ret) = Cardinality(DecodableOf(o.w, bad))
    /\ (last.op = "createEntry" /\ last.ok /\ last.served = "remote") =>
          LET o == getAllJournalEntries(World, now, NoFaults, {})
          IN  o.served = "remote" /\ last.id \in RetIds(o.ret)

\* A listing that skipped the undecodable file and returned the created entry
C11_Witness ==
    /\ last.op = "getAllEntries"
    /\ last.served = "remote"
    /\ repoName \in repos
    /\ FileAt(World, EntryId(1)).text = ForeignText
    /\ RetIds(last.ret) = {EntryId(2)}

EntryWrites == {"createEntry", "updateEntry", "deleteEntry", "moveEntryToFolder"}

\* C12: after a successful remote write of an entry (createEntry, updateEntry,
\* deleteEntry, moveEntryToFolder) the LocalCache copy of the entries holds
\* the same record for that id: the record written, or none after a delete.
C12_RemoteWriteMirroredLocally ==
    (last.op \in EntryWrites /\ last.ok /\ last.served = "remote") =>
        FindLocal(localEntries, last.id)
            = (IF last.op = "deleteEntry" THEN <<>> ELSE last.ret)

\* The remote is reachable and holds the repository of the derived name
RemotePresent == octokit /\ DerivedName(Login) \in repos

\* C13: when the backend flag is unavailable while the remote is reachable
\* with the repository present, the next call re-derives the mode and runs
\* against the remote store: getAllEntries is served remotely, a folder
\* operation finds the backend available, and also getEntryById and
\* loadVectorDB do not use the flag an earlier call left.
C13_ModeRederivedOnNextCall ==
    (RemotePresent /\ ~githubAvailable) =>
        /\ getAllJournalEntries(World, now, NoFaults, {}).served = "remote"
        /\ getAllFolders(World, now, NoFaults, {}).w.avail
        /\ \A id \in Ids :
              getJournalEntryById(World, id, now, TRUE, TRUE).served = "remote"
        /\ LET w1 == verifyGitHubAccess(World, TRUE)
           IN  loadVectorDB(w1, TRUE) = w1.vdb[w1.repoName]

\* The ids on the path getFolderPath has built
PathIds == {walk.path[k].id : k \in 1..Len(walk.path)}

\* C14: getFolderPath stops when the parentId chain revisits an id: its loop
\* never goes on with a folder that is already on the path.
C14_FolderPathStopsAtRevisit ==
    (walk.pc = "loop" /\ walk.currentFolder # <<>>) =>
        walk.currentFolder[1].id \notin PathIds

\* The folders stored remotely under the current name, in listing order
RemoteFolders ==
    IF repoName \in repos THEN FetchFolders(World, FolderNamesInOrder(World), {})
    ELSE <<>>

\* The id n steps up the parentId chain from id in fs, "" where the chain ends
RECURSIVE AncestorAt(_, _, _)
AncestorAt(fs, id, n) ==
    IF n = 0 THEN id
    ELSE LET below == AncestorAt(fs, id, n - 1)
             f == FindFolder(fs, below)
         IN  IF f = <<>> THEN ""
             ELSE IF Truthy(f[1].parentId) THEN f[1].parentId[1] ELSE ""

Acyclic(fs) ==
    \A k \in 1..Len(fs) : \A n \in 1..Len(fs) : AncestorAt(fs, fs[k].id, n) # fs[k].id

\* C15: after any sequence of createFolder, updateFolder, moveFolder and
\* deleteFolder calls the parentId chain of every stored folder is acyclic,
\* in the remote store and in LocalCache.
C15_FolderParentsAcyclic == Acyclic(RemoteFolders) /\ Acyclic(localFolders)

\* A title or content with a line equal to the delimiter "---"
HasDelimiterLine(s) ==
    \E k \in 1..Len(s) :
        /\ s[k] = "---"
        /\ k = 1 \/ s[k - 1] = "\n"
        /\ k = Len(s) \/ s[k + 1] = "\n"

\* C16: decoding the file that createEntry or updateEntry has written for an
\* entry whose title and content have no line equal to "---" yields the
\* entry the call returned: the same title, content, createdAt, updatedAt and
\* folderId.
C16_DecodeOfEncodeIsEntry ==
    (/\ last.op \in {"createEntry", "updateEntry"}
     /\ last.ok /\ last.served = "remote"
     /\ ~HasDelimiterLine(last.ret[1].title)
     /\ ~HasDelimiterLine(last.ret[1].content)) =>
        ParseEntry(last.id, FileAt(World, last.id).text, now) = last.ret

\* The first line of a text: decodedContent.split("\n")[0]
FirstLine(text) ==
    LET nl == {k \in 1..Len(text) : text[k] = "\n"}
    IN  IF nl = {} THEN text
        ELSE SubSeq(text, 1, (CHOOSE a \in nl : \A b \in nl : a <= b) - 1)

\* The title of a payload without metadata block: its leading heading line
\* without the marks, or the id
HeadingTitle(id, text) ==
    LET first == Trim(FirstLine(text))
    IN  IF Len(first) >= 3 /\ first[1] = "#" /\ first[2] = " "
        THEN SubSeq(first, 3, Len(first))
        ELSE <<id>>

\* C17: decoding a remote entry file that has no metadata block returns an
\* entry whose content is the whole payload and whose title is that of the
\* leading heading line, or the id; in getEntryById and for each file of
\* getAllEntries.
C17_NoMetadataFallsBackToBody ==
    \A id \in Ids :
        (/\ octokit /\ githubAvailable /\ Reachable(World)
         /\ FileAt(World, id) # NoFile
         /\ FrontMatterMatch(FileAt(World, id).text) = <<>>) =>
            LET g == getJournalEntryById(World, id, now, TRUE, TRUE).ret
                all == getAllJournalEntries(World, now, NoFaults, {}).ret
                expected(r) == /\ r.id = id
                               /\ r.content = Trim(FileAt(World, id).text)
                               /\ r.title = HeadingTitle(id, FileAt(World, id).text)
            IN  /\ g # <<>> /\ expected(g[1])
                /\ \E k \in 1..Len(all) : expected(all[k])

\* The searches a caller can make, with what the requests of each may do
SearchCallsIn(envs) ==
    UNION {{[q |-> q, k |-> k, e |-> e, bad |-> bad] :
               q \in Queries, k \in TopKs, bad \in BadSets(e.fetch)} : e \in envs}
SearchCalls == SearchCallsIn(SearchEnvs)

\* ret holds at most k entries, in an order of non-increasing score against
\* queryEmbedding, and no entry of the listing all that has a record in
\* vectorDb and is left out of ret scores higher than one of ret
RankedTopK(ret, k, queryEmbedding, vectorDb, all) ==
    LET Score(x) == cosineSimilarity(queryEmbedding, vectorDb[x.id])
    IN  /\ Len(ret) <= k
        /\ \A i \in 1..(Len(ret) - 1) : ~ScoreAbove(Score(ret[i + 1]), Score(ret[i]))
        /\ \A j \in 1..Len(all) :
              (vectorDb[all[j].id] # NoVec /\ all[j].id \notin RetIds(ret))
                  => \A i \in 1..Len(ret) : ~ScoreAbove(Score(all[j]), Score(ret[i]))

\* C18: for every query and every k >= 0, semanticSearch(query, k) returns
\* at most k entries, their similarity scores to the query embedding are
\* non-increasing along the returned list, and no entry of the listing that
\* has a record in the index and is left out of the result scores higher than
\* a returned one.
C18_SearchReturnsTopKByScore ==
    octokit =>
        \A c \in SearchCalls :
            RankedTopK(semanticSearch(World, c.q, c.k, now, c.e, c.bad).ret, c.k,
                       generateEmbedding(c.q, c.e.emb),
                       loadVectorDB(World, c.e.xl),
                       getAllJournalEntries(World, now, c.e, c.bad).ret)

\* A search for one result returned the lower-ranked of two listed entries
\* first in the listing, passing over none that scores higher
C18_Witness ==
    /\ last.op = "semanticSearch" /\ ~last.threw
    /\ last.topK = 1
    /\ last.title = <<"z">>
    /\ Len(last.ret) = 1
    /\ last.ret[1].title # <<"A">>
    /\ repoName \in DOMAIN vdb
    /\ \E i \in Ids : vdb[repoName][i] = <<1, 0>> /\ i \notin RetIds(last.ret)
    /\ \E i \in Ids : vdb[repoName][i] = <<0, 1>> /\ i \in RetIds(last.ret)

\* The ids with a record in an index, and the ids of the index records the
\* store keeps, remotely or in localStorage
IndexedIn(vectorDb) == {i \in Ids : vectorDb[i] # NoVec}
PersistedIds(w) ==
    IndexedIn(w.localVdb)
        \cup (IF w.repoName \in DOMAIN w.vdb THEN IndexedIn(w.vdb[w.repoName]) ELSE {})

\* out is the outcome of a search that loaded vectorDb while getAllEntries
\* lists all: the search does not fail, every returned entry is an entry of
\* the listing with a record in the index, and no id of an index record
\* without a listed entry is returned
OnlyListedAndIndexed(out, vectorDb, all) ==
    /\ ~out.threw
    /\ \A k \in 1..Len(out.ret) :
          /\ \E j \in 1..Len(all) : all[j] = out.ret[k]
          /\ out.ret[k].id \in IndexedIn(vectorDb)
    /\ \A i \in PersistedIds(out.w) \ RetIds(all) : i \notin RetIds(out.ret)

\* C19: every entry returned by semanticSearch is an entry of the current
\* getAllEntries listing that has a record in the vector index; an id that is
\* in the index but whose entry was deleted is never returned, and such an id
\* does not make the search fail.
C19_SearchReturnsListedIndexedEntries ==
    octokit =>
        \A c \in SearchCalls :
            OnlyListedAndIndexed(semanticSearch(World, c.q, c.k, now, c.e, c.bad),
                                 loadVectorDB(World, c.e.xl),
                                 getAllJournalEntries(World, now, c.e, c.bad).ret)

\* A search returned one entry while the remote index still holds the record
\* of an entry whose file deleteEntry removed
C19_Witness ==
    /\ last.op = "semanticSearch" /\ ~last.threw
    /\ last.served = "remote" /\ last.indexOk
    /\ Len(last.ret) = 1
    /\ \E i \in PersistedIds(World) :
          /\ FileAt(World, i) = NoFile
          /\ i \in IndexedIn(vdb[repoName])
          /\ i \notin RetIds(last.ret)

\* The EmbeddingProvider returns unavailable: generateEmbedding gives null,
\* for want of an API key or because the request failed
Unavailable(e) == ~apiKey \/ ~e.emb

\* The store of out.w holds entry x: remotely as the file its fields encode
\* to, locally as an element of the saved list
Stores(out, x) ==
    IF out.served = "remote"
    THEN /\ Reachable(out.w)
         /\ FileAt(out.w, x.id).text
                = FrontMatter(x.title, x.createdAt, x.updatedAt, x.folderId, x.content)
    ELSE \E k \in 1..Len(out.w.localEntries) : out.w.localEntries[k] = x

\* The call from world w with outcome out returned the entry id with the
\* title and content given and stored it
StoredAndReturned(out, id, i) ==
    /\ Len(out.ret) = 1
    /\ out.ret[1].id = id
    /\ out.ret[1].title = i.title
    /\ out.ret[1].content = i.content
    /\ Stores(out, out.ret[1])

\* The call from world w with outcome out did not throw, made no call of
\* loadVectorDB or saveVectorDB, and left both copies of the index as they were
IndexUntouched(w, out) ==
    /\ ~out.threw
    /\ out.w.indexCalls = w.indexCalls
    /\ out.w.localVdb = w.localVdb
    /\ \A r \in DOMAIN w.vdb : out.w.vdb[r] = w.vdb[r]

\* The entries updateEntry can be asked to edit: those of the listing
Listed(e) == RetIds(getAllJournalEntries(World, now, e, {}).ret)

\* C20: whenever the EmbeddingProvider returns unavailable, createEntry and
\* updateEntry (of a listed entry) still store the entry and return it, the
\* upsert performs no read or write of the index, semanticSearch returns an
\* empty list, and in all these cases the persisted vector index is left
\* unchanged and no exception reaches the caller.
C20_EmbeddingUnavailableIsNoOp ==
    octokit =>
        \A e \in {x \in EmbedEnvs : Unavailable(x)} :
            /\ \A i \in Inputs :
                  /\ StoredAndReturned(
                         createJournalEntry(World, i.title, i.content, i.folderId, now, e),
                         EntryId(now), i)
                  /\ IndexUntouched(World,
                         createJournalEntry(World, i.title, i.content, i.folderId, now, e))
            /\ \A id \in Listed(e) : \A i \in Inputs :
                  /\ StoredAndReturned(
                         updateJournalEntry(World, id, i.title, i.content, i.folderId, now, e),
                         id, i)
                  /\ IndexUntouched(World,
                         updateJournalEntry(World, id, i.title, i.content, i.folderId, now, e))
            /\ \A q \in Queries, k \in TopKs :
                  /\ semanticSearch(World, q, k, now, e, {}).ret = <<>>
                  /\ IndexUntouched(World, semanticSearch(World, q, k, now, e, {}))

\* An edit gave an indexed entry a title that embeds differently while the
\* embedding request failed: the edit was stored and returned, and the index
\* still holds the record made for the first title
C20_Witness ==
    /\ last.op = "updateEntry" /\ ~last.threw /\ ~last.indexOk
    /\ last.served = "remote"
    /\ Len(last.ret) = 1
    /\ last.ret[1].title = <<"createdAt: ", "x">>
    /\ FileAt(World, last.id).text
           = FrontMatter(last.ret[1].title, last.ret[1].createdAt, last.ret[1].updatedAt,
                         last.ret[1].folderId, last.ret[1].content)
    /\ vdb[repoName][last.id] = <<1, 0>>

\* The embedding requests among the events of a rebuild
EmbedRequests(trace) == {k \in 1..Len(trace) : trace[k].ev = "embed"}

\* C21: when rebuild is run twice in succession with no entry or index write
\* in between, the second run issues zero embedding requests, whatever
\* happened in the first run.  The second run is taken with every request of
\* its own succeeding.
C21_SecondRebuildEmbedsNothing ==
    (last.op = "rebuildVectorIndex" /\ ~last.threw) =>
        EmbedRequests(rebuildVectorIndex(World, now, NoFaults, {}, {}).w.trace) = {}

\* The rebuilds a caller can make, with what the requests of each may do
RebuildCalls ==
    UNION {{[e |-> e, bad |-> bad, embBad |-> embBad] :
               bad \in BadSets(e.fetch), embBad \in BadSets(e.emb)} : e \in RebuildRunEnvs}

\* The index a store held before a call from world w: the remote blob for a
\* call served remotely, the localStorage copy otherwise
IndexBefore(w, served) ==
    IF served = "remote" /\ w.repoName \in DOMAIN w.vdb THEN w.vdb[w.repoName]
    ELSE w.localVdb

\* out is the outcome of a rebuild from world w: it ends with the return of
\* processed = the number of listed entries and errors = the number of failed
\* embedding requests, and the index it saves (saveVectorDB stores it in
\* localStorage first) holds a record for every entry whose request succeeded
\* and for every listed entry that had one before
RebuildReport(w, out) ==
    LET trace == out.w.trace
        saved == out.w.localVdb
    IN  /\ ~out.threw
        /\ trace # <<>>
        /\ trace[Len(trace)]
               = Event("return", "", Len(out.ret),
                       Cardinality({k \in EmbedRequests(trace) : trace[k].a = 0}))
        /\ \A k \in EmbedRequests(trace) : trace[k].a = 1 => saved[trace[k].id] # NoVec
        /\ \A i \in RetIds(out.ret) :
              IndexBefore(w, out.served)[i] # NoVec => saved[i] # NoVec

\* C22: rebuild over N listed entries always runs to the end and returns
\* processed = N and errors = the number of entries for which an embedding
\* was requested and the request failed; every entry whose request
\* succeeded, and every entry indexed before the run, is in the index that
\* rebuild saves.
C22_RebuildCountsAndKeepsRecords ==
    octokit =>
        \A c \in RebuildCalls :
            RebuildReport(World, rebuildVectorIndex(World, now, c.e, c.bad, c.embBad))

\* The events of one kind in a trace, as the sequence of their positions
Positions(trace, ev) == {k \in 1..Len(trace) : trace[k].ev = ev}

\* C23: during one rebuild over N entries, onProgress is called exactly N
\* times with (1, N), (2, N), ..., (N, N) in that order, and the index is
\* saved exactly once, after the last progress report; no save of the index
\* happens between two entries.
C23_ProgressPerEntrySaveOnce ==
    (last.op = "rebuildVectorIndex" /\ ~last.threw) =>
        LET trace == last.trace
            N == Len(last.ret)
            reports == Positions(trace, "progress")
            saves == Positions(trace, "save")
        IN  /\ Cardinality(reports) = N
            /\ \A k \in reports :
                  /\ trace[k].a = Cardinality({j \in reports : j <= k})
                  /\ trace[k].b = N
            /\ Cardinality(saves) = 1
            /\ \A k \in saves : \A j \in reports : j < k

\* A rebuild over two entries, one of them embedded in the run, reported
\* (1, 2) and (2, 2) and then saved
C23_Witness ==
    /\ last.op = "rebuildVectorIndex" /\ ~last.threw
    /\ Len(last.ret) = 2
    /\ \E k \in EmbedRequests(last.trace) : last.trace[k].a = 1
    /\ \E k \in 1..Len(last.trace) : last.trace[k] = Event("progress", "", 1, 2)
    /\ \E k \in 1..(Len(last.trace) - 1) :
          /\ last.trace[k] = Event("progress", "", 2, 2)
          /\ last.trace[k + 1] = Event("save", "", 0, 0)

\* The repository of out.w holds entry x: the file of its id decodes to the
\* same id, title, content, createdAt, updatedAt and folderId
HoldsEntry(w, x) ==
    /\ Reachable(w)
    /\ FileAt(w, x.id) # NoFile
    /\ ParseEntry(x.id, FileAt(w, x.id).text, now) = <<x>>

\* C24: when the forced retry returns true, every entry that was held in
\* LocalCache exists in the newly created repository with the same id, title,
\* content, createdAt, updatedAt and folderId, and every folder held only in
\* LocalCache exists there too; when it returns false, no record of
\* LocalCache has been lost.
C24_RetryMigratesLocalRecords ==
    octokit =>
        \A e \in RetryEnvs : \A bad \in BadSets(e.put) :
            LET Migrated(out) ==
                    IF out.ok
                    THEN /\ \A k \in 1..Len(localEntries) : HoldsEntry(out.w, localEntries[k])
                         /\ \A k \in 1..Len(localFolders) :
                               FolderAt(out.w, localFolders[k].id) # NoFolderFile
                    ELSE /\ out.w.localEntries = localEntries
                         /\ out.w.localFolders = localFolders
            IN  Migrated(retryGitHubConnection(World, now, e, bad))

\* The outcomes of localStorage and of the create request that bear on a
\* LocalCache write: the write fails, with the backend up or down
LocalWriteEnvs == {[f \in EnvFields |-> f \notin D] : D \in {{"s"}, {"c", "s"}}}

\* A call whose LocalCache write failed notified the user and did not return
\* a record as saved
Surfaced(out) ==
    out.w.unsaved => (out.w.alerted /\ out.ret = <<>>)

\* C25: every failed LocalCache write is surfaced to the user: when storing
\* the entries list, the folders list or the vector-index blob in LocalCache
\* fails, the user is notified, and the operation does not report the
\* unstored record as successfully saved.
C25_FailedLocalWriteIsSurfaced ==
    octokit =>
        \A e \in LocalWriteEnvs :
            /\ \A i \in Inputs :
                  Surfaced(createJournalEntry(World, i.title, i.content, i.folderId, now, e))
            /\ \A id \in FolderIds \ UsedFolderIds, n \in FolderNames :
                  Surfaced(createFolder(World, id, n, Undefined, now, e))

\* C26: getEntryById called with the id 'readme' (in any letter case) returns
\* null without issuing any request to the remote service, in every backend
\* mode.
C26_ReadmeRejectedWithoutRequest ==
    octokit =>
        \A id \in ReadmeIds, v \in BOOLEAN, get \in BOOLEAN :
            LET Rejected(g) == g.ret = <<>> /\ g.requests + g.verifies = 0
            IN  Rejected(getJournalEntryById(World, id, now, v, get))

\* C27: the index blob is not protected against lost updates.  The version
\* token saveVectorDB fetches immediately before writing does not make a
\* write fail that is based on an index loaded before another writer's
\* write: every write that no other write came between its sha request and
\* itself is accepted, and every upsert completes without an error.  (The
\* interleaving in which both writers complete and the persisted index lacks
\* the record of one of them is the witness.)
C27_ShaBeforeWriteAcceptsStaleIndex ==
    \A p \in Callers :
        (ix.w[p].pc = "done" /\ ~ix.w[p].raced) => ix.w[p].accepted

\* Two upserts of distinct ids have both completed with their writes
\* accepted, and the persisted index lacks the record one of them wrote
C27_Witness ==
    \E p \in Callers, q \in Callers :
        /\ p # q
        /\ ix.w[p].pc = "done" /\ ix.w[p].accepted
        /\ ix.w[q].pc = "done" /\ ix.w[q].accepted
        /\ ix.w[p].id # ix.w[q].id
        /\ ix.w[q].loadSha = ix.w[p].loadSha
        /\ repoName \in DOMAIN vdb
        /\ vdb[repoName][ix.w[p].id] = NoVec
        /\ vdb[repoName][ix.w[q].id] # NoVec

\* An entry operation as the hooks issue it: githubService.initialize(token,
\* username), then the operation
HookCreateEntry(w, i, t, e) ==
    createJournalEntry(initialize(w, Login), i.title, i.content, i.folderId, t, e)
HookGetEntry(w, id, t) ==
    getJournalEntryById(initialize(w, Login), id, t, TRUE, TRUE)

\* C28: once the store name has been changed from the derived default, every
\* later entry or folder operation issued through the hooks reads and writes
\* the repository of that name; the initialize call that the hooks make
\* before each operation does not revert it.
C28_ChangedStoreNameIsKept ==
    (octokit /\ Reachable(World) /\ repoName # DerivedName(Login)) =>
        /\ \A i \in Inputs :
              HookCreateEntry(World, i, now, NoFaults).w.repoName = repoName
        /\ \A id \in Ids :
              HookGetEntry(World, id, now).w.repoName = repoName

\* The requests ensureRepoExists may issue, each failing alone or not at all
EnsureEnvs == Envs({"l", "g", "c", "c2"})

\* C29: whenever ensureRepoExists returns true, a repository with the current
\* store name exists and is accessible to the identity, and the backend flag
\* is available when the call returns; a create request rejected as "already
\* exists" never leads to a true result for a repository the identity cannot
\* access.
C29_TrueMeansAccessibleStore ==
    (octokit /\ githubAvailable) =>
        \A e \in EnsureEnvs :
            ensureRepoExists(World, e, now).ret =>
                /\ Reachable(ensureRepoExists(World, e, now).w)
                /\ ensureRepoExists(World, e, now).w.avail

\* The index that later calls read, and the calls of C30: every request
\* succeeds, or the read of the index blob alone fails
PersistedIndex(w) == loadVectorDB(w, TRUE)
IndexReadEnvs == Envs({"xl"})
OthersKept(w, w2, id) ==
    \A j \in Ids \ {id} : PersistedIndex(w2)[j] = PersistedIndex(w)[j]

\* C30: upsert(id, text) and remove(id) change at most the record of id in
\* the persisted vector index: for every other id the stored embedding is the
\* same before and after the call, also when the remote read of the index
\* blob fails transiently at the start of the call.
C30_IndexWritesTouchOneRecord ==
    octokit =>
        \A id \in Ids, e \in IndexReadEnvs :
            /\ \A text \in UpsertTexts :
                  OthersKept(World, upsertEntryEmbedding(World, id, text, e), id)
            /\ OthersKept(World, removeEntryEmbedding(World, id, e), id)

====
